---- MODULE Spec2Model ----
(***************************************************************************)
(* Model of the computational core of the TSX dashboard: the return        *)
(* engine (windowed and year-to-date returns over a price series), the     *)
(* statement aggregator (_col_like, ttm_sum, latest_value) and the ratio   *)
(* calculator (compute_core_ratios).                                       *)
(*                                                                         *)
(* Numbers are exact rationals [k |-> "num", n, d] (d > 0, lowest terms);  *)
(* the other values a Python expression of the program can produce are     *)
(* None, the float nan (a missing observation), +inf and -inf (a numpy     *)
(* division by zero).  All  values are records of one shape so that they   *)
(* can be compared with each other.  Text is a value float() rejects, such *)
(* as a string that is not a numeral.                                      *)
(***************************************************************************)
EXTENDS Integers, Sequences, FiniteSets, TLC

VARIABLES series, now, res,          \* return engine
          df, cands, agg,            \* statement aggregator
          price, info, stmts, out,   \* ratio calculator
          div,                       \* one call of safe_div
          fetch,                     \* one call of get_statements
          uni,                       \* one call of get_tsx_universe
          ttm,                       \* the last call of _ttm_from_quarterly(_coerce_df(df))
          news,                      \* one call of aggregate_news, feed item by feed item
          query,                     \* one call of _resolve_query_to_ticker
          movers,                    \* one call of get_top_movers
          profile                    \* one call of get_profile

vars == <<series, now, res, df, cands, agg, price, info, stmts, out, div, fetch, uni, ttm, news, query, movers, profile>>
retVars == <<series, now, res>>
aggVars == <<df, cands, agg>>
ratioVars == <<price, info, stmts, out>>
divVars == <<div>>
fetchVars == <<fetch>>
uniVars == <<uni>>
ttmVars == <<ttm>>
newsVars == <<news>>
queryVars == <<query>>
moversVars == <<movers>>
profileVars == <<profile>>

-----------------------------------------------------------------------------
(* Values *)

None == [k |-> "None", n |-> 0, d |-> 1]
NaN == [k |-> "nan", n |-> 0, d |-> 1]
PosInf == [k |-> "inf", n |-> 1, d |-> 1]
NegInf == [k |-> "inf", n |-> -1, d |-> 1]

Text == [k |-> "str", n |-> 0, d |-> 1]

Abs(i) == IF i < 0 THEN -i ELSE i

RECURSIVE GCD(_, _)
GCD(a, b) == IF b = 0 THEN a ELSE GCD(b, a % b)

\* the rational p/q (q # 0) in lowest terms with a positive denominator
Rat(p, q) ==
    LET g == GCD(Abs(p), Abs(q))
        s == IF q < 0 THEN -1 ELSE 1
    IN  [k |-> "num", n |-> (s * p) \div g, d |-> Abs(q) \div g]

Num(i) == Rat(i, 1)

IsNum(x) == x.k = "num"

\* x - y and x + y on floats; nan and inf propagate
FSub(x, y) ==
    IF x.k = "nan" \/ y.k = "nan" THEN NaN
    ELSE IF x.k = "inf" THEN (IF y.k = "inf" /\ y.n = x.n THEN NaN ELSE x)
    ELSE IF y.k = "inf" THEN (IF y.n > 0 THEN NegInf ELSE PosInf)
    ELSE Rat(x.n * y.d - y.n * x.d, x.d * y.d)

FAdd(x, y) ==
    IF x.k = "nan" \/ y.k = "nan" THEN NaN
    ELSE IF x.k = "inf" THEN (IF y.k = "inf" /\ y.n # x.n THEN NaN ELSE x)
    ELSE IF y.k = "inf" THEN y
    ELSE Rat(x.n * y.d + y.n * x.d, x.d * y.d)

FMul(x, y) ==
    IF x.k = "nan" \/ y.k = "nan" THEN NaN
    ELSE IF x.k = "inf" \/ y.k = "inf"
         THEN (IF x.n = 0 \/ y.n = 0 THEN NaN
               ELSE IF (x.n > 0) = (y.n > 0) THEN PosInf ELSE NegInf)
    ELSE Rat(x.n * y.n, x.d * y.d)

\* numpy float64 division of two finite numbers: x / 0 is +-inf, 0 / 0 is nan
NpDiv(x, y) ==
    IF y.n = 0
    THEN (IF x.n = 0 THEN NaN ELSE IF x.n > 0 THEN PosInf ELSE NegInf)
    ELSE Rat(x.n * y.d, x.d * y.n)

\* Python float division of two finite numbers: x / 0 raises ZeroDivisionError
Raise == [k |-> "raise", n |-> 0, d |-> 1]
PyDiv(x, y) == IF y.n = 0 THEN Raise ELSE Rat(x.n * y.d, x.d * y.n)

Pct(x) == FMul(FSub(x, Num(1)), Num(100))

-----------------------------------------------------------------------------
(* Return engine: bounds and the price series *)

MaxDay == 5          \* days of the modelled calendar
YearLen == 3         \* days of a modelled calendar year
MaxN == 3            \* largest return window
Price == {0, 1, 2}   \* observed closes

Obs == {Num(p) : p \in Price} \cup {NaN}

\* pd.Timestamp(year, 1, 1) of the year of `t`
Jan1(t) == ((t - 1) \div YearLen) * YearLen + 1

dropna(s) == SelectSeq(s, LAMBDA o : o.v # NaN)
since(s, t0) == SelectSeq(s, LAMBDA o : o.t >= t0)
iloc(s, i) == IF i >= 0 THEN s[i + 1].v ELSE s[Len(s) + 1 + i].v

\* the result of the last computation on the current series
Idle == [op |-> "idle", n |-> 0, ret |-> None, last |-> None, d1 |-> None, ytd |-> None]
Dict == [k |-> "dict", n |-> 0, d |-> 1]

\* variant of pct_window: 0 instead of None for a short series
pct_window_zero(s0, n) ==
    LET s == dropna(s0)
    IN  IF Len(s) <= n THEN Num(0)
        ELSE FSub(NpDiv(iloc(s, -1), iloc(s, -n - 1)), Num(1))

\* variant of pct_window: rows without a close keep their position
pct_window_ffill(s0, n) ==
    LET s == s0
    IN  IF Len(dropna(s0)) <= n THEN None
        ELSE IF iloc(s, -1) = NaN \/ iloc(s, -n - 1) = NaN THEN NaN
        ELSE FSub(NpDiv(iloc(s, -1), iloc(s, -n - 1)), Num(1))

\* pages/1_Screener.py
pct_window(s0, n) ==
    LET s == dropna(s0)
    IN  IF Len(s) <= n THEN None
        ELSE FSub(NpDiv(iloc(s, -1), iloc(s, -n - 1)), Num(1))

\* variant of ytd_return: a single close of the year is accepted
ytd_return_one(s0, today) ==
    IF Len(s0) = 0 THEN None
    ELSE LET s == dropna(since(s0, Jan1(today)))
         IN  IF Len(s) < 1 THEN None
             ELSE FSub(NpDiv(iloc(s, -1), iloc(s, 0)), Num(1))

ytd_return(s0, today) ==
    IF Len(s0) = 0 THEN None
    ELSE LET s == dropna(since(s0, Jan1(today)))
         IN  IF Len(s) < 2 THEN None
             ELSE FSub(NpDiv(iloc(s, -1), iloc(s, 0)), Num(1))

\* pages/2_Fiche_Valeur.py, render_kpi_block
_ret_days(s0, n) ==
    LET s == dropna(s0)
    IN  IF Len(s) <= n THEN None
        ELSE FSub(NpDiv(iloc(s, -1), iloc(s, -n - 1)), Num(1))

_ret_ytd(s0, today) ==
    LET s1 == dropna(s0)
    IN  IF Len(s1) = 0 THEN None
        ELSE LET s == since(s1, Jan1(today))
             IN  IF Len(s) < 2 THEN None
                 ELSE FSub(NpDiv(iloc(s, -1), iloc(s, 0)), Num(1))

\* app.py: the index cards; `hist` is the Close column of the download
get_index_snapshot(hist, today) ==
    LET close == dropna(hist)
        last == iloc(close, -1)
        prev == iloc(close, -2)
        ytd_slice == since(close, Jan1(today))
        base == iloc(ytd_slice, 0)
    IN  IF Len(hist) = 0 THEN [Idle EXCEPT !.op = "get_index_snapshot"]
        ELSE IF Len(close) = 0      \* close.iloc[-1] raises IndexError, caught
        THEN [Idle EXCEPT !.op = "get_index_snapshot"]
        ELSE [op |-> "get_index_snapshot", n |-> 0, ret |-> Dict, last |-> last,
              d1 |-> IF Len(close) >= 2 /\ prev.n > 0
                     THEN Pct(PyDiv(last, prev)) ELSE None,
              ytd |-> IF Len(ytd_slice) > 0 /\ base.n > 0
                      THEN Pct(PyDiv(last, base)) ELSE None]

macro_pair_last_and_returns(hist, today) ==
    LET c == dropna(hist)
        last == iloc(c, -1)
        ytd_slice == since(c, Jan1(today))
        q1 == IF Len(c) >= 2 THEN PyDiv(last, iloc(c, -2)) ELSE None
        q2 == IF Len(ytd_slice) > 0 THEN PyDiv(last, iloc(ytd_slice, 0)) ELSE None
        fail == [Idle EXCEPT !.op = "macro_pair_last_and_returns"]
    IN  IF Len(hist) = 0 \/ Len(c) = 0 THEN fail
        ELSE IF q1 = Raise \/ q2 = Raise THEN fail   \* ZeroDivisionError, caught
        ELSE [op |-> "macro_pair_last_and_returns", n |-> 0, ret |-> Dict,
              last |-> last,
              d1 |-> IF q1 = None THEN None ELSE Pct(q1),
              ytd |-> IF q2 = None THEN None ELSE Pct(q2)]

\* core/data_source.py: get_prices([idx], period="ytd") keeps the rows of the
\* current year and drops the rows without a close (dropna(how="all"))
get_index_block(hist, today) ==
    LET px == dropna(since(hist, Jan1(today)))
        p1 == px
    IN  [op |-> "get_index_block", n |-> 0, ret |-> Dict,
         last |-> IF Len(px) > 0 THEN iloc(px, -1) ELSE NaN,
         d1 |-> IF Len(p1) >= 2 THEN Pct(NpDiv(iloc(p1, -1), iloc(p1, -2))) ELSE NaN,
         ytd |-> IF Len(p1) >= 1 THEN Pct(NpDiv(iloc(p1, -1), iloc(p1, 0))) ELSE NaN]

-----------------------------------------------------------------------------
(* Return engine: the state machine.  Closes arrive day by day (a day may   *)
(* bring no row, or a row without a close); any page may then be rendered. *)

Tick ==
    /\ now < MaxDay
    /\ now' = now + 1
    /\ res' = Idle
    /\ UNCHANGED series
    /\ UNCHANGED <<aggVars, ratioVars, divVars, fetchVars, uniVars, ttmVars, newsVars, queryVars, moversVars, profileVars>>

LastDay(s) == IF Len(s) = 0 THEN 0 ELSE s[Len(s)].t

Observe(v) ==
    /\ LastDay(series) < now
    /\ series' = Append(series, [t |-> now, v |-> v])
    /\ res' = Idle
    /\ UNCHANGED now
    /\ UNCHANGED <<aggVars, ratioVars, divVars, fetchVars, uniVars, ttmVars, newsVars, queryVars, moversVars, profileVars>>

PctWindow(n) ==
    /\ res' = [Idle EXCEPT !.op = "pct_window", !.n = n, !.ret = pct_window(series, n)]
    /\ UNCHANGED <<series, now>>
    /\ UNCHANGED <<aggVars, ratioVars, divVars, fetchVars, uniVars, ttmVars, newsVars, queryVars, moversVars, profileVars>>

YtdReturn ==
    /\ res' = [Idle EXCEPT !.op = "ytd_return", !.ret = ytd_return(series, now)]
    /\ UNCHANGED <<series, now>>
    /\ UNCHANGED <<aggVars, ratioVars, divVars, fetchVars, uniVars, ttmVars, newsVars, queryVars, moversVars, profileVars>>

RetDays(n) ==
    /\ res' = [Idle EXCEPT !.op = "_ret_days", !.n = n, !.ret = _ret_days(series, n)]
    /\ UNCHANGED <<series, now>>
    /\ UNCHANGED <<aggVars, ratioVars, divVars, fetchVars, uniVars, ttmVars, newsVars, queryVars, moversVars, profileVars>>

RetYtd ==
    /\ res' = [Idle EXCEPT !.op = "_ret_ytd", !.ret = _ret_ytd(series, now)]
    /\ UNCHANGED <<series, now>>
    /\ UNCHANGED <<aggVars, ratioVars, divVars, fetchVars, uniVars, ttmVars, newsVars, queryVars, moversVars, profileVars>>

GetIndexSnapshot ==
    /\ res' = get_index_snapshot(series, now)
    /\ UNCHANGED <<series, now>>
    /\ UNCHANGED <<aggVars, ratioVars, divVars, fetchVars, uniVars, ttmVars, newsVars, queryVars, moversVars, profileVars>>

MacroPair ==
    /\ res' = macro_pair_last_and_returns(series, now)
    /\ UNCHANGED <<series, now>>
    /\ UNCHANGED <<aggVars, ratioVars, divVars, fetchVars, uniVars, ttmVars, newsVars, queryVars, moversVars, profileVars>>

GetIndexBlock ==
    /\ res' = get_index_block(series, now)
    /\ UNCHANGED <<series, now>>
    /\ UNCHANGED <<aggVars, ratioVars, divVars, fetchVars, uniVars, ttmVars, newsVars, queryVars, moversVars, profileVars>>

-----------------------------------------------------------------------------
(* Statement aggregator: strings, tables *)

\* A string is the sequence of its characters, so that lower() and the
\* substring test `a in b` are computed and not assumed.
UpperAlpha == <<"A","B","C","D","E","F","G","H","I","J","K","L","M",
                "N","O","P","Q","R","S","T","U","V","W","X","Y","Z">>
LowerAlpha == <<"a","b","c","d","e","f","g","h","i","j","k","l","m",
                "n","o","p","q","r","s","t","u","v","w","x","y","z">>

lowerChar(c) ==
    IF \E i \in 1..26 : UpperAlpha[i] = c
    THEN LowerAlpha[CHOOSE i \in 1..26 : UpperAlpha[i] = c]
    ELSE c

Chars == {UpperAlpha[i] : i \in 1..26} \cup {LowerAlpha[i] : i \in 1..26} \cup {" ", ".", "^"}
lowerMap == [c \in Chars |-> lowerChar(c)]

\* str.lower()
lower(str) == [i \in 1..Len(str) |-> lowerMap[str[i]]]

\* `name in k` on strings
contains(k, name) ==
    \E i \in 0..(Len(k) - Len(name)) : SubSeq(k, i + 1, i + Len(name)) = name

\* row labels of the statement tables
L_NetIncome == <<"N","e","t"," ","I","n","c","o","m","e">>
L_NET_INCOME == <<"N","E","T"," ","I","N","C","O","M","E">>
L_NetIncomeCommon == <<"N","e","t"," ","I","n","c","o","m","e"," ","C","o","m","m","o","n"," ","S","t","o","c","k","h","o","l","d","e","r","s">>
L_EBITDA == <<"E","B","I","T","D","A">>
L_EBIT == <<"E","B","I","T">>
L_LongTermDebt == <<"L","o","n","g"," ","T","e","r","m"," ","D","e","b","t">>

\* candidate names, as written in core/ratios.py
c_net_income == <<"n","e","t"," ","i","n","c","o","m","e">>
c_net_income_common == <<"n","e","t"," ","i","n","c","o","m","e"," ","c","o","m","m","o","n">>
c_ebitda == <<"e","b","i","t","d","a">>
c_ebit == <<"e","b","i","t">>
c_long_term_debt == <<"l","o","n","g"," ","t","e","r","m"," ","d","e","b","t">>
c_sales == <<"s","a","l","e","s">>

\* a label, or None
Label(l) == [k |-> "label", v |-> l]
NoLabel == [k |-> "None", v |-> <<>>]

\* A DataFrame: row labels (index), period dates (columns), vals[r][c];
\* none = TRUE stands for the Python value None
NoneDF == [none |-> TRUE, index |-> <<>>, columns |-> <<>>, vals |-> <<>>]
EmptyDF == [none |-> FALSE, index |-> <<>>, columns |-> <<>>, vals |-> <<>>]
empty(t) == Len(t.index) = 0 \/ Len(t.columns) = 0
DF(index, columns, vals) ==
    [none |-> FALSE, index |-> index, columns |-> columns, vals |-> vals]

TtmQuarters == 4

\* {c.lower(): c for c in df.index.astype(str)}: a dict keeps the position of
\* the first insertion of a key and the value of the last
dictPut(dct, key, val) ==
    IF \E j \in 1..Len(dct) : dct[j].k = key
    THEN [j \in 1..Len(dct) |-> IF dct[j].k = key THEN [k |-> key, orig |-> val] ELSE dct[j]]
    ELSE Append(dct, [k |-> key, orig |-> val])

RECURSIVE lowerDict(_, _)
lowerDict(index, i) ==
    IF i = 0 THEN <<>>
    ELSE dictPut(lowerDict(index, i - 1), lower(index[i]), index[i])

Min(S) == CHOOSE x \in S : \A y \in S : x <= y
Max(S) == CHOOSE x \in S : \A y \in S : x >= y

\* variant of _col_like: the candidates are tried from the last to the first
_col_like_reversed(t, candidates) ==
    IF t.none \/ empty(t) THEN NoLabel
    ELSE LET cols == lowerDict(t.index, Len(t.index))
             hits(name) == {j \in 1..Len(cols) : contains(cols[j].k, lower(name))}
             found == {i \in 1..Len(candidates) : hits(candidates[i]) # {}}
         IN  IF found = {} THEN NoLabel
             ELSE Label(cols[Min(hits(candidates[Max(found)]))].orig)

_col_like(t, candidates) ==
    IF t.none \/ empty(t) THEN NoLabel
    ELSE LET cols == lowerDict(t.index, Len(t.index))
             hits(name) == {j \in 1..Len(cols) : contains(cols[j].k, lower(name))}
             found == {i \in 1..Len(candidates) : hits(candidates[i]) # {}}
         IN  IF found = {} THEN NoLabel
             ELSE Label(cols[Min(hits(candidates[Min(found)]))].orig)

\* df.loc[row]: the Series of the row, indexed by the period dates
loc(t, row) ==
    LET r == CHOOSE i \in 1..Len(t.index) : t.index[i] = row
    IN  [c \in 1..Len(t.columns) |-> [t |-> t.columns[c], v |-> t.vals[r][c]]]

\* Series.sort_index(): ascending by period date, stable
RECURSIVE insert(_, _)
insert(s, o) ==
    IF Len(s) = 0 THEN <<o>>
    ELSE IF s[Len(s)].t <= o.t THEN Append(s, o)
    ELSE Append(insert(SubSeq(s, 1, Len(s) - 1), o), s[Len(s)])

RECURSIVE sort_index(_)
sort_index(s) ==
    IF Len(s) = 0 THEN <<>>
    ELSE insert(sort_index(SubSeq(s, 1, Len(s) - 1)), s[Len(s)])

tail(s, n) == IF Len(s) <= n THEN s ELSE SubSeq(s, Len(s) - n + 1, Len(s))

RECURSIVE sum(_)
sum(s) == IF Len(s) = 0 THEN Num(0) ELSE FAdd(sum(SubSeq(s, 1, Len(s) - 1)), s[Len(s)].v)

\* variant of ttm_sum: the columns are taken in table order
ttm_sum_unsorted(df_q, candidates) ==
    IF df_q.none \/ empty(df_q) THEN None
    ELSE LET row == _col_like(df_q, candidates)
         IN  IF row = NoLabel THEN None
             ELSE LET s == tail(dropna(loc(df_q, row.v)), TtmQuarters)
                  IN  IF Len(s) = 0 THEN None ELSE sum(s)

ttm_sum(df_q, candidates) ==
    IF df_q.none \/ empty(df_q) THEN None
    ELSE LET row == _col_like(df_q, candidates)
         IN  IF row = NoLabel THEN None
             ELSE LET s == tail(sort_index(dropna(loc(df_q, row.v))), TtmQuarters)
                  IN  IF Len(s) = 0 THEN None ELSE sum(s)

\* variant of latest_value: the columns are taken in table order
latest_value_unsorted(t, candidates) ==
    IF t.none \/ empty(t) THEN None
    ELSE LET row == _col_like(t, candidates)
         IN  IF row = NoLabel THEN None
             ELSE LET s == dropna(loc(t, row.v))
                  IN  IF Len(s) = 0 THEN None ELSE iloc(s, -1)

latest_value(t, candidates) ==
    IF t.none \/ empty(t) THEN None
    ELSE LET row == _col_like(t, candidates)
         IN  IF row = NoLabel THEN None
             ELSE LET s == sort_index(dropna(loc(t, row.v)))
                  IN  IF Len(s) = 0 THEN None ELSE iloc(s, -1)

\* the result of the last aggregation on the current table
AggIdle == [op |-> "idle", row |-> NoLabel, val |-> None]

ColLike ==
    /\ agg' = [AggIdle EXCEPT !.op = "_col_like", !.row = _col_like(df, cands)]
    /\ UNCHANGED <<df, cands>>
    /\ UNCHANGED <<retVars, ratioVars, divVars, fetchVars, uniVars, ttmVars, newsVars, queryVars, moversVars, profileVars>>

\* variant of the call of ttm_sum: the periods of the table are put in
\* ascending order in place
TtmSum_inplace ==
    /\ agg' = [AggIdle EXCEPT !.op = "ttm_sum", !.val = ttm_sum(df, cands)]
    /\ df' = IF df.none THEN df
             ELSE LET n == Len(df.columns)
                  IN  [df EXCEPT !.columns = [c \in 1..n |-> df.columns[n + 1 - c]],
                                 !.vals = [r \in 1..Len(df.index) |->
                                              [c \in 1..n |-> df.vals[r][n + 1 - c]]]]
    /\ UNCHANGED cands
    /\ UNCHANGED <<retVars, ratioVars, divVars, fetchVars, uniVars, ttmVars, newsVars, queryVars, moversVars, profileVars>>

TtmSum ==
    /\ agg' = [AggIdle EXCEPT !.op = "ttm_sum", !.val = ttm_sum(df, cands)]
    /\ UNCHANGED <<df, cands>>
    /\ UNCHANGED <<retVars, ratioVars, divVars, fetchVars, uniVars, ttmVars, newsVars, queryVars, moversVars, profileVars>>

LatestValue ==
    /\ agg' = [AggIdle EXCEPT !.op = "latest_value", !.val = latest_value(df, cands)]
    /\ UNCHANGED <<df, cands>>
    /\ UNCHANGED <<retVars, ratioVars, divVars, fetchVars, uniVars, ttmVars, newsVars, queryVars, moversVars, profileVars>>

-----------------------------------------------------------------------------
(* Ratio calculator *)

c_total_revenue == <<"t","o","t","a","l"," ","r","e","v","e","n","u","e">>
c_revenue == <<"r","e","v","e","n","u","e">>
c_total_debt == <<"t","o","t","a","l"," ","d","e","b","t">>
c_short_long_term_debt == <<"s","h","o","r","t"," ","l","o","n","g"," ","t","e","r","m"," ","d","e","b","t">>
c_cash == <<"c","a","s","h">>
c_cash_and_cash_equivalents == <<"c","a","s","h"," ","a","n","d"," ","c","a","s","h"," ","e","q","u","i","v","a","l","e","n","t","s">>
c_total_cash_from_operating_activities == <<"t","o","t","a","l"," ","c","a","s","h"," ","f","r","o","m"," ","o","p","e","r","a","t","i","n","g"," ","a","c","t","i","v","i","t","i","e","s">>
c_operating_cash_flow == <<"o","p","e","r","a","t","i","n","g"," ","c","a","s","h"," ","f","l","o","w">>
c_capital_expenditures == <<"c","a","p","i","t","a","l"," ","e","x","p","e","n","d","i","t","u","r","e","s">>
c_total_stockholder_equity == <<"t","o","t","a","l"," ","s","t","o","c","k","h","o","l","d","e","r"," ","e","q","u","i","t","y">>
c_total_shareholders_equity == <<"t","o","t","a","l"," ","s","h","a","r","e","h","o","l","d","e","r","s"," ","e","q","u","i","t","y">>
c_total_current_assets == <<"t","o","t","a","l"," ","c","u","r","r","e","n","t"," ","a","s","s","e","t","s">>
c_total_current_liabilities == <<"t","o","t","a","l"," ","c","u","r","r","e","n","t"," ","l","i","a","b","i","l","i","t","i","e","s">>
c_operating_income == <<"o","p","e","r","a","t","i","n","g"," ","i","n","c","o","m","e">>
c_interest_expense == <<"i","n","t","e","r","e","s","t"," ","e","x","p","e","n","s","e">>
c_interest_expense_non_operating == <<"i","n","t","e","r","e","s","t"," ","e","x","p","e","n","s","e"," ","n","o","n"," ","o","p","e","r","a","t","i","n","g">>

L_TotalRevenue == <<"T","o","t","a","l"," ","R","e","v","e","n","u","e">>
L_InterestExpense == <<"I","n","t","e","r","e","s","t"," ","E","x","p","e","n","s","e">>
L_TotalDebt == <<"T","o","t","a","l"," ","D","e","b","t">>
L_CashAndCashEquivalents == <<"C","a","s","h"," ","A","n","d"," ","C","a","s","h"," ","E","q","u","i","v","a","l","e","n","t","s">>
L_TotalStockholderEquity == <<"T","o","t","a","l"," ","S","t","o","c","k","h","o","l","d","e","r"," ","E","q","u","i","t","y">>
L_TotalStockholdersEquity == <<"T","o","t","a","l"," ","S","t","o","c","k","h","o","l","d","e","r","s"," ","E","q","u","i","t","y">>
L_TotalCurrentAssets == <<"T","o","t","a","l"," ","C","u","r","r","e","n","t"," ","A","s","s","e","t","s">>
L_TotalCurrentLiabilities == <<"T","o","t","a","l"," ","C","u","r","r","e","n","t"," ","L","i","a","b","i","l","i","t","i","e","s">>
L_TotalCashFromOperatingActivities == <<"T","o","t","a","l"," ","C","a","s","h"," ","F","r","o","m"," ","O","p","e","r","a","t","i","n","g"," ","A","c","t","i","v","i","t","i","e","s">>
L_ShortLongTermDebt == <<"S","h","o","r","t"," ","L","o","n","g"," ","T","e","r","m"," ","D","e","b","t">>
L_CapitalExpenditures == <<"C","a","p","i","t","a","l"," ","E","x","p","e","n","d","i","t","u","r","e","s">>

InfoKeys == {"marketCap", "sharesOutstanding", "trailingPE", "priceToBook",
             "priceToSalesTrailing12Months", "enterpriseToEbitda", "dividendYield", "beta"}
RatioNames == {"P/E (TTM)", "P/B", "P/S (TTM)", "EV/EBITDA (TTM)", "FCF Yield (TTM)",
               "ROE (TTM)", "D/E", "Current Ratio", "Interest Coverage",
               "Dividend Yield", "Beta"}

\* Python truth value of a number or None
truthy(x) == x # None /\ ~(IsNum(x) /\ x.n = 0)

FAbs(x) == IF IsNum(x) THEN Rat(Abs(x.n), x.d) ELSE IF x.k = "inf" THEN PosInf ELSE x

\* the float quotient x / y, y not a finite zero
FloatDiv(x, y) ==
    IF IsNum(x) /\ IsNum(y) THEN PyDiv(x, y)
    ELSE IF x.k = "nan" \/ y.k = "nan" THEN NaN
    ELSE IF x.k = "inf" /\ y.k = "inf" THEN NaN
    ELSE IF y.k = "inf" THEN Num(0)
    ELSE IF (x.n > 0) = (y.n > 0) THEN PosInf ELSE NegInf

\* variant of safe_div: the zero test left to numpy's division
safe_div_np(a, b) ==
    IF a = None \/ b = None THEN None
    ELSE IF a = Text \/ b = Text THEN None
    ELSE IF IsNum(b) /\ b.n = 0 THEN (IF IsNum(a) THEN NpDiv(a, b) ELSE a)
    ELSE FloatDiv(a, b)

\* variant of safe_div: 0 in place of an undefined quotient
safe_div_zero(a, b) ==
    IF a = None \/ b = None \/ (IsNum(b) /\ b.n = 0) THEN Num(0)
    ELSE IF a = Text \/ b = Text THEN Num(0)
    ELSE FloatDiv(a, b)

safe_div(a, b) ==
    IF a = None \/ b = None \/ (IsNum(b) /\ b.n = 0) THEN None
    ELSE IF a = Text \/ b = Text THEN None       \* float() raises, caught
    ELSE FloatDiv(a, b)

\* variant of the final loop: a yield scaled to a percentage
cleanup_percent(name, v) ==
    IF IsNum(v) /\ name \in {"FCF Yield (TTM)", "Dividend Yield"}
    THEN Rat(100 * v.n, v.d)
    ELSE v

\* the final loop of compute_core_ratios: float(v) of a finite number
cleanup(name, v) ==
    IF IsNum(v)
    THEN (IF name \in {"FCF Yield (TTM)", "Dividend Yield"} THEN Rat(v.n, v.d)
          ELSE IF name \in {"P/E (TTM)", "EV/EBITDA (TTM)", "P/B", "P/S (TTM)", "D/E",
                            "Current Ratio", "Interest Coverage"} THEN Rat(v.n, v.d)
          ELSE IF name \in {"ROE (TTM)"} THEN Rat(v.n, v.d)
          ELSE v)
    ELSE v

\* variant of the P/E fallback: a trailingPE of 0 counts as absent
pe_fallback_falsy(p, inf, st) ==
    LET shares == inf["sharesOutstanding"]
        pe == inf["trailingPE"]
    IN  IF ~truthy(pe) /\ p # None /\ truthy(shares)
        THEN LET net_income_ttm == ttm_sum(st["income_q"], <<c_net_income, c_net_income_common>>)
                 eps_ttm == safe_div(net_income_ttm, shares)
             IN  safe_div(p, eps_ttm)
        ELSE pe

\* variant of the P/E fallback: price over net income, not over EPS
pe_fallback_no_eps(p, inf, st) ==
    LET shares == inf["sharesOutstanding"]
        pe == inf["trailingPE"]
    IN  IF pe = None /\ p # None /\ truthy(shares)
        THEN LET net_income_ttm == ttm_sum(st["income_q"], <<c_net_income, c_net_income_common>>)
             IN  safe_div(p, net_income_ttm)
        ELSE pe

pe_fallback(p, inf, st) ==
    LET shares == inf["sharesOutstanding"]
        pe == inf["trailingPE"]
    IN  IF pe = None /\ p # None /\ truthy(shares)
        THEN LET net_income_ttm == ttm_sum(st["income_q"], <<c_net_income, c_net_income_common>>)
                 eps_ttm == safe_div(net_income_ttm, shares)
             IN  safe_div(p, eps_ttm)
        ELSE pe

\* variant of the P/S fallback: price over sales, not market value over sales
ps_fallback_per_share(p, inf, st) ==
    LET shares == inf["sharesOutstanding"]
        ps == inf["priceToSalesTrailing12Months"]
    IN  IF ps = None /\ p # None /\ truthy(shares)
        THEN LET sales_ttm == ttm_sum(st["income_q"], <<c_total_revenue, c_revenue, c_sales>>)
             IN  safe_div(p, sales_ttm)
        ELSE ps

ps_fallback(p, inf, st) ==
    LET shares == inf["sharesOutstanding"]
        ps == inf["priceToSalesTrailing12Months"]
    IN  IF ps = None /\ p # None /\ truthy(shares)
        THEN LET sales_ttm == ttm_sum(st["income_q"], <<c_total_revenue, c_revenue, c_sales>>)
             IN  safe_div(FMul(p, shares), sales_ttm)
        ELSE ps

\* variant of the EV/EBITDA fallback: cash added to the enterprise value
ev_ebitda_fallback_plus_cash(p, inf, st) ==
    LET mcap == inf["marketCap"]
        ev_ebitda == inf["enterpriseToEbitda"]
    IN  IF ev_ebitda = None
        THEN LET total_debt == latest_value(st["bs_a"],
                                   <<c_total_debt, c_long_term_debt, c_short_long_term_debt>>)
                 cash == latest_value(st["bs_a"], <<c_cash, c_cash_and_cash_equivalents>>)
                 ev == IF mcap # None /\ total_debt # None /\ cash # None
                       THEN FAdd(FAdd(mcap, total_debt), cash) ELSE None
                 ebitda_ttm == ttm_sum(st["income_q"], <<c_ebitda>>)
             IN  safe_div(ev, ebitda_ttm)
        ELSE ev_ebitda

ev_ebitda_fallback(p, inf, st) ==
    LET mcap == inf["marketCap"]
        ev_ebitda == inf["enterpriseToEbitda"]
    IN  IF ev_ebitda = None
        THEN LET total_debt == latest_value(st["bs_a"],
                                   <<c_total_debt, c_long_term_debt, c_short_long_term_debt>>)
                 cash == latest_value(st["bs_a"], <<c_cash, c_cash_and_cash_equivalents>>)
                 ev == IF mcap # None /\ total_debt # None /\ cash # None
                       THEN FSub(FAdd(mcap, total_debt), cash) ELSE None
                 ebitda_ttm == ttm_sum(st["income_q"], <<c_ebitda>>)
             IN  safe_div(ev, ebitda_ttm)
        ELSE ev_ebitda

\* variant of FCF Yield: capital expenditures added to the operating cash flow
fcf_yield_plus_capex(p, inf, st) ==
    LET mcap == inf["marketCap"]
        cf_q == st["cf_q"]
        ocf_ttm == ttm_sum(cf_q, <<c_total_cash_from_operating_activities, c_operating_cash_flow>>)
        capex_ttm == ttm_sum(cf_q, <<c_capital_expenditures>>)
        fcf_ttm == IF ~cf_q.none /\ ~empty(cf_q) /\ ocf_ttm # None /\ capex_ttm # None
                   THEN FAdd(ocf_ttm, capex_ttm) ELSE None
    IN  IF truthy(mcap) THEN safe_div(fcf_ttm, mcap) ELSE None

fcf_yield(p, inf, st) ==
    LET mcap == inf["marketCap"]
        cf_q == st["cf_q"]
        ocf_ttm == ttm_sum(cf_q, <<c_total_cash_from_operating_activities, c_operating_cash_flow>>)
        capex_ttm == ttm_sum(cf_q, <<c_capital_expenditures>>)
        fcf_ttm == IF ~cf_q.none /\ ~empty(cf_q) /\ ocf_ttm # None /\ capex_ttm # None
                   THEN FSub(ocf_ttm, capex_ttm) ELSE None
    IN  IF truthy(mcap) THEN safe_div(fcf_ttm, mcap) ELSE None

\* variant of Interest Coverage: the interest expense keeps its sign
interest_coverage_signed(p, inf, st) ==
    LET inc_q == st["income_q"]
        ebit_ttm == IF ~inc_q.none /\ ~empty(inc_q)
                    THEN ttm_sum(inc_q, <<c_ebit, c_operating_income>>) ELSE None
        int_exp_ttm == ttm_sum(inc_q, <<c_interest_expense, c_interest_expense_non_operating>>)
    IN  safe_div(ebit_ttm, IF truthy(int_exp_ttm) THEN int_exp_ttm ELSE None)

interest_coverage(p, inf, st) ==
    LET inc_q == st["income_q"]
        ebit_ttm == IF ~inc_q.none /\ ~empty(inc_q)
                    THEN ttm_sum(inc_q, <<c_ebit, c_operating_income>>) ELSE None
        int_exp_ttm == ttm_sum(inc_q, <<c_interest_expense, c_interest_expense_non_operating>>)
    IN  safe_div(ebit_ttm, IF truthy(int_exp_ttm) THEN FAbs(int_exp_ttm) ELSE None)

\* variant of compute_core_ratios: without an income table nothing is computed
compute_core_ratios_all_or_nothing(p, inf, st) ==
    IF st["income_q"].none
    THEN [name \in RatioNames |-> None]
    ELSE [name \in RatioNames |->
             CASE name = "P/E (TTM)" -> pe_fallback(p, inf, st)
               [] name = "P/B" -> inf["priceToBook"]
               [] name = "P/S (TTM)" -> ps_fallback(p, inf, st)
               [] name = "EV/EBITDA (TTM)" -> ev_ebitda_fallback(p, inf, st)
               [] name = "FCF Yield (TTM)" -> fcf_yield(p, inf, st)
               [] name = "ROE (TTM)" ->
                    safe_div(ttm_sum(st["income_q"], <<c_net_income, c_net_income_common>>),
                             latest_value(st["bs_a"], <<c_total_stockholder_equity,
                                                        c_total_shareholders_equity>>))
               [] name = "D/E" ->
                    safe_div(latest_value(st["bs_a"], <<c_total_debt, c_long_term_debt>>),
                             latest_value(st["bs_a"], <<c_total_stockholder_equity,
                                                        c_total_shareholders_equity>>))
               [] name = "Current Ratio" ->
                    safe_div(latest_value(st["bs_a"], <<c_total_current_assets>>),
                             latest_value(st["bs_a"], <<c_total_current_liabilities>>))
               [] name = "Interest Coverage" -> interest_coverage(p, inf, st)
               [] name = "Dividend Yield" -> inf["dividendYield"]
               [] name = "Beta" -> inf["beta"]]

compute_core_ratios(p, inf, st) ==
    LET equity == latest_value(st["bs_a"],
                      <<c_total_stockholder_equity, c_total_shareholders_equity>>)
        net_income_ttm == ttm_sum(st["income_q"], <<c_net_income, c_net_income_common>>)
        total_debt == latest_value(st["bs_a"], <<c_total_debt, c_long_term_debt>>)
        current_assets == latest_value(st["bs_a"], <<c_total_current_assets>>)
        current_liab == latest_value(st["bs_a"], <<c_total_current_liabilities>>)
        raw == [name \in RatioNames |->
                 CASE name = "P/E (TTM)" -> pe_fallback(p, inf, st)
                   [] name = "P/B" -> inf["priceToBook"]
                   [] name = "P/S (TTM)" -> ps_fallback(p, inf, st)
                   [] name = "EV/EBITDA (TTM)" -> ev_ebitda_fallback(p, inf, st)
                   [] name = "FCF Yield (TTM)" -> fcf_yield(p, inf, st)
                   [] name = "ROE (TTM)" -> safe_div(net_income_ttm, equity)
                   [] name = "D/E" -> safe_div(total_debt, equity)
                   [] name = "Current Ratio" -> safe_div(current_assets, current_liab)
                   [] name = "Interest Coverage" -> interest_coverage(p, inf, st)
                   [] name = "Dividend Yield" -> inf["dividendYield"]
                   [] name = "Beta" -> inf["beta"]]
    IN  [name \in RatioNames |-> cleanup(name, raw[name])]

\* before compute_core_ratios has returned there is no RatioSet
NoOut == [name \in {"none"} |-> None]

ComputeCoreRatios ==
    /\ out' = compute_core_ratios(price, info, stmts)
    /\ UNCHANGED <<price, info, stmts>>
    /\ UNCHANGED <<retVars, aggVars, divVars, fetchVars, uniVars, ttmVars, newsVars, queryVars, moversVars, profileVars>>

\* a call safe_div(a, b)
NoDiv == [a |-> None, b |-> None, ret |-> None, done |-> FALSE]

SafeDiv ==
    /\ div' = [div EXCEPT !.ret = safe_div(div.a, div.b), !.done = TRUE]
    /\ UNCHANGED <<retVars, aggVars, ratioVars, fetchVars, uniVars, ttmVars, newsVars, queryVars, moversVars, profileVars>>

-----------------------------------------------------------------------------
(* Data source: get_statements.  The provider answers each of the six      *)
(* fetches with a table, which may be empty, or raises.                     *)

StatementKeys == {"income_q", "income_a", "bs_q", "bs_a", "cf_q", "cf_a"}

Failure == [raises |-> TRUE, table |-> NoneDF]
Answer(t) == [raises |-> FALSE, table |-> t]

\* try: q then a; except Exception: both empty
family(resp, q, a) ==
    IF resp[q].raises THEN [raised |-> FALSE, q |-> EmptyDF, a |-> EmptyDF]
    ELSE IF resp[a].raises THEN [raised |-> FALSE, q |-> EmptyDF, a |-> EmptyDF]
    ELSE [raised |-> FALSE, q |-> resp[q].table, a |-> resp[a].table]

\* variant of get_statements: one try block around the six fetches, any
\* failure leaving the six tables empty
get_statements_one_try(resp) ==
    [raised |-> FALSE,
     out |-> [key \in StatementKeys |->
                 IF \A k \in StatementKeys : ~resp[k].raises
                 THEN resp[key].table ELSE EmptyDF]]

get_statements(resp) ==
    LET income == family(resp, "income_q", "income_a")
        bs == family(resp, "bs_q", "bs_a")
        cf == family(resp, "cf_q", "cf_a")
    IN  [raised |-> income.raised \/ bs.raised \/ cf.raised,
         out |-> [key \in StatementKeys |->
                     CASE key = "income_q" -> income.q
                       [] key = "income_a" -> income.a
                       [] key = "bs_q" -> bs.q
                       [] key = "bs_a" -> bs.a
                       [] key = "cf_q" -> cf.q
                       [] key = "cf_a" -> cf.a]]

NoFetch == [resp |-> [key \in StatementKeys |-> Failure], done |-> FALSE,
            raised |-> FALSE, out |-> [key \in {"none"} |-> NoneDF]]

GetStatements ==
    /\ fetch' = [fetch EXCEPT !.done = TRUE,
                              !.raised = get_statements(fetch.resp).raised,
                              !.out = get_statements(fetch.resp).out]
    /\ UNCHANGED <<retVars, aggVars, ratioVars, divVars, uniVars, ttmVars, newsVars, queryVars, moversVars, profileVars>>

-----------------------------------------------------------------------------
(* Data source: get_tsx_universe.  The page read by pd.read_html is a list  *)
(* of tables, or the read raises; a table has column headers and rows of   *)
(* cells, a cell being a string or nan.                                     *)

k_symbol == <<"s","y","m","b","o","l">>
k_ticker == <<"t","i","c","k","e","r">>
k_company == <<"c","o","m","p","a","n","y">>
k_name == <<"n","a","m","e">>
k_sector == <<"s","e","c","t","o","r">>
k_industry == <<"i","n","d","u","s","t","r","y">>
k_sub == <<"s","u","b">>

Str(v) == [k |-> "str", v |-> v]
NanCell == [k |-> "nan", v |-> <<>>]

\* str.strip(), str.endswith(".TO"), str.startswith("^")
RECURSIVE lstrip(_)
lstrip(str) == IF Len(str) > 0 /\ str[1] = " " THEN lstrip(Tail(str)) ELSE str
RECURSIVE rstrip(_)
rstrip(str) ==
    IF Len(str) > 0 /\ str[Len(str)] = " " THEN rstrip(SubSeq(str, 1, Len(str) - 1)) ELSE str
strip(str) == rstrip(lstrip(str))
dotTO == <<".", "T", "O">>
endswith(str, suffix) ==
    Len(str) >= Len(suffix) /\ SubSeq(str, Len(str) - Len(suffix) + 1, Len(str)) = suffix
startswith(str, prefix) == Len(str) >= Len(prefix) /\ SubSeq(str, 1, Len(prefix)) = prefix

\* astype(str) of a cell
astype_str(cell) == IF cell.k = "nan" THEN <<"n", "a", "n">> ELSE cell.v

\* the lambda applied to the symbol column
with_suffix(str) ==
    IF endswith(str, dotTO) \/ startswith(str, <<"^">>) THEN str ELSE str \o dotTO

cols == <<"symbol", "name", "sector", "industry">>

\* pd.DataFrame(columns=cols)
EmptyUniverse == [raised |-> FALSE, columns |-> cols, symbols |-> <<>>]

is_symbol_column(c) == contains(lower(c), k_symbol) \/ contains(lower(c), k_ticker)

\* the name a column gets from rename_map
rename(c) ==
    LET lc == lower(c)
    IN  IF contains(lc, k_symbol) \/ contains(lc, k_ticker) THEN "symbol"
        ELSE IF contains(lc, k_company) \/ contains(lc, k_name) THEN "name"
        ELSE IF contains(lc, k_sector) THEN "sector"
        ELSE IF contains(lc, k_industry) \/ contains(lc, k_sub) THEN "industry"
        ELSE "other"

\* drop_duplicates(): the first occurrence of each value is kept
RECURSIVE drop_duplicates(_)
drop_duplicates(q) ==
    IF Len(q) = 0 THEN <<>>
    ELSE LET front == drop_duplicates(SubSeq(q, 1, Len(q) - 1))
         IN  IF \E i \in 1..Len(front) : front[i] = q[Len(q)] THEN front
             ELSE Append(front, q[Len(q)])

\* DataFrame.head(n), n an integer
head(q, n) ==
    IF n >= 0 THEN SubSeq(q, 1, Min({n, Len(q)}))
    ELSE SubSeq(q, 1, Max({0, Len(q) + n}))

\* the columns of df[cols] after the renaming: a name given to several
\* columns of the page comes several times
RECURSIVE repeat(_, _)
repeat(x, n) == IF n = 0 THEN <<>> ELSE <<x>> \o repeat(x, n - 1)
selected(renamed) ==
    LET times(c) == Max({1, Cardinality({i \in 1..Len(renamed) : renamed[i] = c})})
    IN  repeat("symbol", times("symbol")) \o repeat("name", times("name"))
            \o repeat("sector", times("sector")) \o repeat("industry", times("industry"))

\* variant of get_tsx_universe: no removal of repeated symbols
get_tsx_universe_dup(page, limit) ==
    IF page.raises THEN EmptyUniverse
    ELSE LET hits == {i \in 1..Len(page.tables) :
                        \E c \in 1..Len(page.tables[i].columns) :
                            is_symbol_column(page.tables[i].columns[c])}
         IN  IF hits = {} THEN EmptyUniverse
             ELSE LET t == page.tables[Min(hits)]
                      renamed == [c \in 1..Len(t.columns) |-> rename(t.columns[c])]
                      symcols == {c \in 1..Len(renamed) : renamed[c] = "symbol"}
                  IN  IF symcols = {} THEN EmptyUniverse
                      ELSE IF Cardinality(symcols) > 1 THEN EmptyUniverse
                      ELSE LET sc == CHOOSE c \in symcols : TRUE
                               symbol == [r \in 1..Len(t.rows) |->
                                            with_suffix(strip(astype_str(t.rows[r][sc])))]
                           IN  [raised |-> FALSE, columns |-> selected(renamed),
                                symbols |-> IF limit # None /\ limit.n # 0
                                            THEN head(symbol, limit.n) ELSE symbol]

get_tsx_universe(page, limit) ==
    IF page.raises THEN EmptyUniverse                 \* except Exception
    ELSE LET hits == {i \in 1..Len(page.tables) :
                        \E c \in 1..Len(page.tables[i].columns) :
                            is_symbol_column(page.tables[i].columns[c])}
         IN  IF hits = {} THEN EmptyUniverse
             ELSE LET t == page.tables[Min(hits)]
                      renamed == [c \in 1..Len(t.columns) |-> rename(t.columns[c])]
                      symcols == {c \in 1..Len(renamed) : renamed[c] = "symbol"}
                  IN  IF symcols = {} THEN EmptyUniverse
                      \* df["symbol"] is a DataFrame, .str raises, except Exception
                      ELSE IF Cardinality(symcols) > 1 THEN EmptyUniverse
                      ELSE LET sc == CHOOSE c \in symcols : TRUE
                               symbol == [r \in 1..Len(t.rows) |->
                                            with_suffix(strip(astype_str(t.rows[r][sc])))]
                               df_ == drop_duplicates(symbol)
                           IN  [raised |-> FALSE, columns |-> selected(renamed),
                                symbols |-> IF limit # None /\ limit.n # 0
                                            THEN head(df_, limit.n) ELSE df_]

NoPage == [raises |-> TRUE, tables |-> <<>>]
NoUni == [page |-> NoPage, limit |-> None, done |-> FALSE, ret |-> EmptyUniverse]

GetTsxUniverse ==
    /\ uni' = [uni EXCEPT !.done = TRUE, !.ret = get_tsx_universe(uni.page, uni.limit)]
    /\ UNCHANGED <<retVars, aggVars, ratioVars, divVars, fetchVars, ttmVars, newsVars, queryVars, moversVars, profileVars>>

-----------------------------------------------------------------------------
(* Statement page: _coerce_df and _ttm_from_quarterly *)

\* a Series over the line items, or the Python value None
NoSeries == [none |-> TRUE, name |-> "", index |-> <<>>, vals |-> <<>>]
Series(name, index, vals) == [none |-> FALSE, name |-> name, index |-> index, vals |-> vals]

\* sorted(df.columns, reverse=True) for pairwise distinct columns
sorted_reverse(columns) ==
    LET rank(c) == 1 + Cardinality({x \in 1..Len(columns) : columns[x] > columns[c]})
    IN  [i \in 1..Len(columns) |-> columns[CHOOSE c \in 1..Len(columns) : rank(c) = i]]

\* df.reindex(new_columns, axis=1); raises on an axis with duplicate labels
reindex(t, columns) ==
    LET at(c) == CHOOSE x \in 1..Len(t.columns) : t.columns[x] = c
    IN  DF(t.index, columns,
           [r \in 1..Len(t.index) |-> [i \in 1..Len(columns) |-> t.vals[r][at(columns[i])]]])

_coerce_df(t) ==
    IF t.none \/ empty(t) THEN EmptyDF
    ELSE IF \E i, j \in 1..Len(t.columns) : i # j /\ t.columns[i] = t.columns[j]
         THEN t
         ELSE reindex(t, sorted_reverse(t.columns))

\* qdf.iloc[:, :n]
iloc_columns(t, n) ==
    DF(t.index, SubSeq(t.columns, 1, n), [r \in 1..Len(t.index) |-> SubSeq(t.vals[r], 1, n)])

\* pd.to_numeric(arg): "arg must be a list, tuple, 1-d array, or Series"
ndim(arg) == IF "columns" \in DOMAIN arg THEN 2 ELSE 1
to_numeric(arg) == [raises |-> ndim(arg) > 1, value |-> arg]

\* DataFrame.sum(axis=1): the missing values are skipped
RECURSIVE row_sum(_)
row_sum(row) ==
    IF Len(row) = 0 THEN Num(0)
    ELSE LET rest == row_sum(SubSeq(row, 1, Len(row) - 1))
         IN  IF IsNum(row[Len(row)]) THEN FAdd(rest, row[Len(row)]) ELSE rest

_ttm_from_quarterly(qdf) ==
    IF qdf.none \/ empty(qdf) \/ Len(qdf.columns) < TtmQuarters THEN NoSeries
    ELSE LET last4 == iloc_columns(qdf, TtmQuarters)
             num == to_numeric(last4)
         IN  IF num.raises THEN NoSeries
             ELSE Series("TTM", num.value.index,
                         [r \in 1..Len(num.value.index) |-> row_sum(num.value.vals[r])])

NoTtm == [done |-> FALSE, table |-> EmptyDF, ret |-> NoSeries]

\* ttm = _ttm_from_quarterly(_coerce_df(inc_q))
TtmFromQuarterly ==
    /\ ~ttm.done
    /\ LET qdf == _coerce_df(df)
       IN  ttm' = [done |-> TRUE, table |-> qdf, ret |-> _ttm_from_quarterly(qdf)]
    /\ UNCHANGED <<retVars, aggVars, ratioVars, divVars, fetchVars, uniVars, newsVars, queryVars, moversVars, profileVars>>

-----------------------------------------------------------------------------
(* News page: _score_item and aggregate_news *)

\* the hosts of YF_RSS_FR and YF_RSS_EN: an item's source is the host of its link
fr_finance_yahoo_com == <<"f","r",".","f","i","n","a","n","c","e",".","y","a","h","o","o",".","c","o","m">>
ca_finance_yahoo_com == <<"c","a",".","f","i","n","a","n","c","e",".","y","a","h","o","o",".","c","o","m">>
finance_yahoo_com == <<"f","i","n","a","n","c","e",".","y","a","h","o","o",".","c","o","m">>

\* the hints the modelled titles can meet; the titles hold no accented letter
FR_HINTS == {<<" ","l","e"," ">>, <<" ","l","a"," ">>, <<" ","b","o","u","r","s","e">>, <<" ","t","s","x">>}
CA_HINTS == {<<" ","c","a","n","a","d","a">>, <<" ","t","s","x">>, <<".","t","o">>, <<" ","r","b","c">>}

_is_french_like(text) ==
    LET t == <<" ">> \o lower(text) \o <<" ">>
    IN  \E k \in FR_HINTS : contains(t, k)

_is_canada_focused(title, source) ==
    LET t == <<" ">> \o lower(title) \o <<" ">>
    IN  \/ \E k \in CA_HINTS : contains(t, k)
        \/ endswith(source, <<".","c","a">>)
        \/ contains(source, ca_finance_yahoo_com)
        \/ contains(t, <<".","t","o">>)

\* an item: link (the identity of a URL), source, title followed by summary,
\* published (0 stands for None, otherwise a time)
_score_item(item) ==
    LET title == item.title \o <<" ">>
        source == lower(item.source)
    IN  (IF contains(source, fr_finance_yahoo_com) \/ startswith(source, <<"f","r",".">>)
         THEN 50 ELSE 0)
        + (IF _is_french_like(title) THEN 25 ELSE 0)
        + (IF _is_canada_focused(title, source) THEN 40 ELSE 0)
        + (IF item.published # 0 THEN 1 ELSE 0)

\* _sort_key: (score, published or datetime.min); datetime.min is the time 0
_sort_key(item) == <<_score_item(item), item.published>>
key_ge(a, b) == a[1] > b[1] \/ (a[1] = b[1] /\ a[2] >= b[2])

\* list.sort(key=_sort_key, reverse=True): stable, descending
RECURSIVE insert_desc(_, _)
insert_desc(q, item) ==
    IF Len(q) = 0 THEN <<item>>
    ELSE IF key_ge(_sort_key(q[Len(q)]), _sort_key(item)) THEN Append(q, item)
    ELSE Append(insert_desc(SubSeq(q, 1, Len(q) - 1), item), q[Len(q)])

RECURSIVE sort_desc(_)
sort_desc(q) ==
    IF Len(q) = 0 THEN <<>>
    ELSE insert_desc(sort_desc(SubSeq(q, 1, Len(q) - 1)), q[Len(q)])

\* variant of ordered: the two groups are left in feed order
ordered_unsorted(raw) ==
    SelectSeq(raw, LAMBDA it : _score_item(it) >= 50)
        \o SelectSeq(raw, LAMBDA it : _score_item(it) < 50)

\* steps 3 and 4 of aggregate_news
ordered(raw) ==
    sort_desc(SelectSeq(raw, LAMBDA it : _score_item(it) >= 50))
        \o sort_desc(SelectSeq(raw, LAMBDA it : _score_item(it) < 50))

\* news.pc: "idle" before the call, "fr"/"en" inside _add for feed k of
\* YF_RSS_FR/YF_RSS_EN, "rank" after the collection, "done" after the return;
\* log: the feeds read so far, each with len(raw) when its reading began;
\* first: the items that were the first served with their link
NoNews == [pc |-> "idle", k |-> 0, limit |-> 0, pool |-> {}, raw |-> <<>>, seen |-> {},
           log |-> <<>>, first |-> {}, ret |-> <<>>]

\* _add(fetch_rss(url)) begins for feed k of a list
read(n, pc, k) ==
    [n EXCEPT !.pc = pc, !.k = k,
              !.log = Append(n.log, [feed |-> pc, k |-> k, before |-> Len(n.raw)])]

\* what follows the French feeds
english(n) ==
    IF Len(n.raw) < n.limit * 2 THEN read(n, "en", 1) ELSE [n EXCEPT !.pc = "rank"]

\* what follows the return of _add in the loop over a list of two feeds
after_add(n) ==
    IF n.pc = "fr"
    THEN IF Len(n.raw) >= n.limit * 2 THEN english(n)
         ELSE IF n.k < 2 THEN read(n, "fr", n.k + 1) ELSE english(n)
    ELSE IF Len(n.raw) >= n.limit * 3 THEN [n EXCEPT !.pc = "rank"]
         ELSE IF n.k < 2 THEN read(n, "en", n.k + 1) ELSE [n EXCEPT !.pc = "rank"]

AggregateNews ==
    /\ news.pc = "idle"
    /\ news' = read(news, "fr", 1)
    /\ UNCHANGED <<retVars, aggVars, ratioVars, divVars, fetchVars, uniVars, ttmVars, queryVars, moversVars, profileVars>>

\* variant of AddItem: _add goes on after limit * 3 items
AddItem_nocap ==
    /\ news.pc \in {"fr", "en"}
    /\ \E it \in news.pool :
          IF it.link \in news.seen
          THEN news' = news
          ELSE news' = [news EXCEPT !.raw = Append(@, it), !.seen = @ \cup {it.link},
                                    !.first = @ \cup {it}]
    /\ UNCHANGED <<retVars, aggVars, ratioVars, divVars, fetchVars, uniVars, ttmVars, queryVars, moversVars, profileVars>>

\* one iteration of the loop of _add over the items of the feed being read
AddItem ==
    /\ news.pc \in {"fr", "en"}
    /\ \E it \in news.pool :
          IF it.link \in news.seen
          THEN news' = news
          ELSE LET n == [news EXCEPT !.raw = Append(@, it), !.seen = @ \cup {it.link},
                                     !.first = @ \cup {it}]
               IN  news' = IF Len(n.raw) >= n.limit * 3 THEN after_add(n) ELSE n
    /\ UNCHANGED <<retVars, aggVars, ratioVars, divVars, fetchVars, uniVars, ttmVars, queryVars, moversVars, profileVars>>

\* the feed being read has no further item
EndFeed ==
    /\ news.pc \in {"fr", "en"}
    /\ news' = after_add(news)
    /\ UNCHANGED <<retVars, aggVars, ratioVars, divVars, fetchVars, uniVars, ttmVars, queryVars, moversVars, profileVars>>

\* steps 3 and 4, and the return
Rank ==
    /\ news.pc = "rank"
    /\ news' = [news EXCEPT !.pc = "done", !.ret = head(ordered(news.raw), news.limit)]
    /\ UNCHANGED <<retVars, aggVars, ratioVars, divVars, fetchVars, uniVars, ttmVars, queryVars, moversVars, profileVars>>

-----------------------------------------------------------------------------
(* Stock page: _resolve_query_to_ticker *)

\* "e'" and "E'" stand for the letters e and E with an acute accent
upperChar(c) ==
    IF \E i \in 1..26 : LowerAlpha[i] = c
    THEN UpperAlpha[CHOOSE i \in 1..26 : LowerAlpha[i] = c]
    ELSE IF c = "e'" THEN "E'" ELSE c

\* str.upper()
upper(str) == [i \in 1..Len(str) |-> upperChar(str[i])]

\* str.isalpha()
isalpha(str) ==
    /\ Len(str) > 0
    /\ \A i \in 1..Len(str) :
          \/ \E j \in 1..26 : str[i] = UpperAlpha[j] \/ str[i] = LowerAlpha[j]
          \/ str[i] \in {"e'", "E'"}

_strip_accents(str) ==
    [i \in 1..Len(str) |-> IF str[i] = "e'" THEN "e" ELSE IF str[i] = "E'" THEN "E" ELSE str[i]]

\* _normalize_ticker of pages/2_Fiche_Valeur.py
_normalize_ticker(t) ==
    IF Len(t) = 0 THEN t
    ELSE LET u == upper(strip(t))
         IN  IF startswith(u, <<"^">>) THEN u
             ELSE IF endswith(u, dotTO) THEN u ELSE u \o dotTO

\* the result (ticker, hits); searched tells whether _yahoo_search was called
Resolved(ticker, hits, searched) == [ticker |-> ticker, hits |-> hits, searched |-> searched]

\* variant of _resolve_query_to_ticker: the first of several hits is taken
_resolve_query_to_ticker_first(user_query, found, exists) ==
    IF Len(user_query) = 0 THEN Resolved(<<>>, <<>>, FALSE)
    ELSE LET q == upper(_strip_accents(strip(user_query)))
         IN  IF (Len(q) <= 5 /\ isalpha(q)) \/ endswith(q, dotTO) \/ startswith(q, <<"^">>)
             THEN Resolved(_normalize_ticker(q), <<>>, FALSE)
             ELSE IF Len(found) = 0
                  THEN Resolved(IF exists THEN _normalize_ticker(q) ELSE <<>>, <<>>, TRUE)
                  ELSE Resolved(found[1].symbol, found, TRUE)

\* found: what _yahoo_search answers; exists: what _symbol_exists answers
_resolve_query_to_ticker(user_query, found, exists) ==
    IF Len(user_query) = 0 THEN Resolved(<<>>, <<>>, FALSE)
    ELSE LET q == upper(_strip_accents(strip(user_query)))
         IN  IF (Len(q) <= 5 /\ isalpha(q)) \/ endswith(q, dotTO) \/ startswith(q, <<"^">>)
             THEN Resolved(_normalize_ticker(q), <<>>, FALSE)
             ELSE IF Len(found) = 0
                  THEN Resolved(IF exists THEN _normalize_ticker(q) ELSE <<>>, <<>>, TRUE)
                  ELSE IF Len(found) = 1 THEN Resolved(found[1].symbol, found, TRUE)
                  ELSE Resolved(<<>>, found, TRUE)

NoQuery == [text |-> <<>>, found |-> <<>>, exists |-> FALSE, done |-> FALSE,
            ret |-> Resolved(<<>>, <<>>, FALSE)]

\* resolved_ticker, hits = _resolve_query_to_ticker(search_text)
ResolveQuery ==
    /\ ~query.done
    /\ query' = [query EXCEPT !.done = TRUE,
                    !.ret = _resolve_query_to_ticker(query.text, query.found, query.exists)]
    /\ UNCHANGED <<retVars, aggVars, ratioVars, divVars, fetchVars, uniVars, ttmVars, newsVars, moversVars, profileVars>>

-----------------------------------------------------------------------------
(* Data source: get_top_movers *)

\* a price table: one column per ticker, one row per day, oldest first
Prices(columns, rows) == [columns |-> columns, rows |-> rows]

\* DataFrame.ffill(): a missing price takes the last price before it
RECURSIVE ffill_cell(_, _, _)
ffill_cell(rows, r, c) ==
    IF r = 0 THEN NaN
    ELSE IF rows[r][c] # NaN THEN rows[r][c] ELSE ffill_cell(rows, r - 1, c)

ffill(px) ==
    Prices(px.columns,
           [r \in 1..Len(px.rows) |-> [c \in 1..Len(px.columns) |-> ffill_cell(px.rows, r, c)]])

\* last.iloc[-1] / last.iloc[-2] - 1.0, column by column
ret_1d(last) ==
    [c \in 1..Len(last.columns) |->
        LET a == last.rows[Len(last.rows)][c]
            b == last.rows[Len(last.rows) - 1][c]
        IN  [ticker |-> last.columns[c],
             ret_1d |-> IF IsNum(a) /\ IsNum(b) THEN FSub(NpDiv(a, b), Num(1)) ELSE NaN]]

gt(x, y) == x.n * y.d > y.n * x.d

\* Series.sort_values(ascending=False) of pairwise distinct numbers: the
\* largest first, nan last
sort_values(q) ==
    LET nums == {i \in 1..Len(q) : IsNum(q[i].ret_1d)}
        rank(i) == 1 + Cardinality({j \in nums : gt(q[j].ret_1d, q[i].ret_1d)})
    IN  [i \in 1..Cardinality(nums) |-> q[CHOOSE j \in nums : rank(j) = i]]
            \o SelectSeq(q, LAMBDA o : ~IsNum(o.ret_1d))

EmptyMovers == [columns |-> <<"ticker", "ret_1d">>, rows |-> <<>>]

\* variant of get_top_movers: a ticker of best is left out of worst
get_top_movers_once(px, top_n) ==
    IF Len(px.rows) = 0 \/ Len(px.columns) = 0 THEN EmptyMovers
    ELSE IF Len(px.rows) < 2 THEN EmptyMovers
    ELSE LET ret == sort_values(ret_1d(ffill(px)))
             best == head(ret, top_n)
             worst == tail(SubSeq(ret, Len(best) + 1, Len(ret)), top_n)
         IN  [EmptyMovers EXCEPT !.rows = best \o worst]

\* px: what get_prices(tickers, period="5d") returns
get_top_movers(px, top_n) ==
    IF Len(px.rows) = 0 \/ Len(px.columns) = 0 THEN EmptyMovers
    ELSE IF Len(px.rows) < 2 THEN EmptyMovers
    ELSE LET ret == sort_values(ret_1d(ffill(px)))
             best == head(ret, top_n)
             worst == tail(ret, top_n)
         IN  [EmptyMovers EXCEPT !.rows = best \o worst]

NoMovers == [px |-> Prices(<<>>, <<>>), top_n |-> 0, done |-> FALSE, ret |-> EmptyMovers]

GetTopMovers ==
    /\ ~movers.done
    /\ movers' = [movers EXCEPT !.done = TRUE, !.ret = get_top_movers(movers.px, movers.top_n)]
    /\ UNCHANGED <<retVars, aggVars, ratioVars, divVars, fetchVars, uniVars, ttmVars, newsVars, queryVars, profileVars>>

-----------------------------------------------------------------------------
(* Data source: get_profile, and the stock page's use of it *)

\* the keys of the dict get_profile returns
wanted == {"longName", "shortName", "sector", "industry", "longBusinessSummary", "website",
           "marketCap", "sharesOutstanding", "trailingPE", "forwardPE", "priceToBook",
           "enterpriseToEbitda", "dividendYield", "beta", "currency"}

\* dict.get(key)
get(dict, key) == IF key \in DOMAIN dict THEN dict[key] ELSE None

\* resp: what t.get_info() does, raise or answer with a dict
get_profile(resp) ==
    LET info_ == IF resp.raises THEN <<>> ELSE resp.info
    IN  [k \in wanted |-> get(info_, k)]

NoProfile == [resp |-> [raises |-> TRUE, info |-> <<>>], done |-> FALSE, ret |-> <<>>]

\* info = ds.get_profile(ticker); compute_core_ratios reads it with info.get
GetProfile ==
    /\ ~profile.done
    /\ LET ret == get_profile(profile.resp)
       IN  /\ profile' = [profile EXCEPT !.done = TRUE, !.ret = ret]
           /\ info' = [key \in InfoKeys |-> get(ret, key)]
    /\ UNCHANGED <<price, stmts, out>>
    /\ UNCHANGED <<retVars, aggVars, divVars, fetchVars, uniVars, ttmVars, newsVars, queryVars, moversVars>>

\* ratios = compute_core_ratios(price=kpi["last_px"], info=info, stmts=stmts_rat)
RatiosOfProfile ==
    /\ profile.done
    /\ out = NoOut
    /\ price # None
    /\ ComputeCoreRatios

-----------------------------------------------------------------------------
(* Inputs of the statement aggregator *)

MaxRows == 3         \* rows of a table whose labels vary
MaxPeriod == 5       \* periods of a table whose values vary

\* the sequences of at most n pairwise distinct elements of S
DistinctSeqs(S, n) ==
    UNION {{q \in [1..m -> S] : \A i, j \in 1..m : i # j => q[i] # q[j]} : m \in 0..n}

\* the orders in which the periods 1..m can appear as columns
Orders(m) == {q \in [1..m -> 1..m] : \A i, j \in 1..m : i # j => q[i] # q[j]}

LabelSet == {L_NetIncome, L_NET_INCOME, L_NetIncomeCommon, L_EBITDA, L_EBIT, L_LongTermDebt}
CandSet == {c_net_income, c_net_income_common, c_ebit, c_ebitda, c_long_term_debt}
CandLists == DistinctSeqs(CandSet, 2)

\* tables whose labels vary: one period, row r holds the value r
LabelTables ==
    {DF(index, <<1>>, [r \in 1..Len(index) |-> <<Num(r)>>]) :
        index \in DistinctSeqs(LabelSet, MaxRows)}

\* tables whose periods vary: the columns come in any order and any value of
\* the Net Income row may be missing; period p holds 2^(p-1), so that a sum
\* tells which periods were added; the EBITDA row is complete
ValueOf(p) == Num(2 ^ (p - 1))
OtherOf(p) == Num(100 * p)
PeriodTables(index) ==
    {DF(index, columns,
        [r \in 1..Len(index) |->
            [c \in 1..Len(columns) |->
                IF index[r] = L_NetIncome
                THEN (IF columns[c] \in miss THEN NaN ELSE ValueOf(columns[c]))
                ELSE OtherOf(columns[c])]]) :
        <<columns, miss>> \in UNION {Orders(m) \X SUBSET (1..m) : m \in 0..MaxPeriod}}

\* balance sheets whose labels vary, with the candidate lists of
\* compute_core_ratios for the debt and the cash
DebtTables ==
    {DF(index, <<1>>, [r \in 1..Len(index) |-> <<Num(r)>>]) :
        index \in DistinctSeqs({L_TotalDebt, L_LongTermDebt, L_ShortLongTermDebt,
                                L_CashAndCashEquivalents}, MaxRows)}
DebtCands == {<<c_total_debt, c_long_term_debt, c_short_long_term_debt>>,
              <<c_cash, c_cash_and_cash_equivalents>>}

InitAggInputs ==
    \/ /\ df \in LabelTables \cup {NoneDF, EmptyDF}
       /\ cands \in CandLists
    \/ /\ df \in DebtTables
       /\ cands \in DebtCands
    \/ /\ df \in PeriodTables(<<L_NetIncome>>)
       /\ cands \in {<<c_net_income, c_net_income_common>>, <<c_sales>>}
    \/ /\ df \in PeriodTables(<<L_EBITDA, L_NetIncome>>)
       /\ cands \in {<<c_net_income, c_net_income_common>>, <<c_ebitda>>}

-----------------------------------------------------------------------------
(* Inputs of the ratio calculator *)

Quarterly(index, n, rows) ==
    DF(index, [c \in 1..n |-> n + 1 - c],       \* most recent period first
       [r \in 1..Len(index) |-> [c \in 1..n |-> Num(rows[r][c])]])

IncomeLabels == <<L_TotalRevenue, L_EBITDA, L_EBIT, L_InterestExpense, L_NetIncome>>
IncomeFull == Quarterly(IncomeLabels, 4,
    << <<300, 200, 300, 200>>, <<150, 100, 150, 100>>, <<100, 100, 100, 100>>,
       <<-10, -10, -10, -10>>, <<100, 50, 60, 40>> >>)
IncomeShort == Quarterly(IncomeLabels, 3,
    << <<300, 200, 300>>, <<150, 100, 150>>, <<100, 100, 100>>,
       <<-10, -10, -10>>, <<100, 50, 60>> >>)
IncomeZero == Quarterly(IncomeLabels, 4,
    << <<0, 0, 0, 0>>, <<5, -5, 5, -5>>, <<100, 100, 100, 100>>,
       <<0, 0, 0, 0>>, <<1, -1, 2, -2>> >>)
IncomeLoss == Quarterly(IncomeLabels, 4,
    << <<100, 100, 100, 100>>, <<-50, -50, -50, -50>>, <<-60, -60, -60, -60>>,
       <<10, 10, 10, 10>>, <<-70, -50, -40, -40>> >>)
IncomeTables == {NoneDF, EmptyDF, IncomeFull, IncomeShort, IncomeZero, IncomeLoss}

BalanceLabels == <<L_TotalDebt, L_LongTermDebt, L_CashAndCashEquivalents,
                   L_TotalStockholderEquity, L_TotalCurrentAssets,
                   L_TotalCurrentLiabilities>>
BalanceFull == Quarterly(BalanceLabels, 2,
    << <<500, 450>>, <<300, 250>>, <<200, 150>>, <<1000, 900>>, <<400, 350>>, <<200, 100>> >>)
BalanceZero == Quarterly(BalanceLabels, 2,
    << <<0, 450>>, <<0, 250>>, <<0, 150>>, <<0, 900>>, <<400, 350>>, <<0, 100>> >>)
BalanceYahoo == Quarterly(<<L_LongTermDebt, L_CashAndCashEquivalents,
                            L_TotalStockholdersEquity>>, 2,
    << <<300, 250>>, <<200, 150>>, <<1000, 900>> >>)
BalanceTables == {NoneDF, EmptyDF, BalanceFull, BalanceZero, BalanceYahoo}

CashLabels == <<L_TotalCashFromOperatingActivities, L_CapitalExpenditures>>
CashFull == Quarterly(CashLabels, 4, << <<80, 80, 80, 80>>, <<-20, -20, -20, -20>> >>)
CashShort == Quarterly(CashLabels, 3, << <<80, 80, 80>>, <<-20, -20, -20>> >>)
CashNoCapex == Quarterly(<<L_TotalCashFromOperatingActivities>>, 4, << <<80, 80, 80, 80>> >>)
CashTables == {NoneDF, EmptyDF, CashFull, CashShort, CashNoCapex}

Opt(S) == {None} \cup {Num(x) : x \in S}

NoInfo == [key \in InfoKeys |-> None]

\* profiles that vary the inputs of the ratios with a fallback
ValuationProfiles ==
    {[NoInfo EXCEPT !["marketCap"] = m, !["sharesOutstanding"] = sh,
                    !["trailingPE"] = pe, !["priceToSalesTrailing12Months"] = ps,
                    !["enterpriseToEbitda"] = ev] :
        <<m, sh, pe, ps, ev>> \in
            Opt({0, 1000}) \X Opt({0, 100}) \X Opt({0, 12}) \X Opt({3}) \X Opt({7})}

\* profiles that vary the fields passed through as they are
PassThroughProfiles ==
    {[NoInfo EXCEPT !["priceToBook"] = pb, !["dividendYield"] = dy, !["beta"] = b,
                    !["marketCap"] = m] :
        <<pb, dy, b, m>> \in Opt({2}) \X {None, Rat(1, 32)} \X Opt({1}) \X Opt({1000})}

Statements(iq, bs, cf) == [income_q |-> iq, bs_a |-> bs, cf_q |-> cf]

InitRatioInputs ==
    \/ /\ price \in Opt({10})
       /\ info \in ValuationProfiles
       /\ stmts \in {Statements(iq, bs, cf) :
                        <<iq, bs, cf>> \in IncomeTables \X BalanceTables \X CashTables}
    \/ /\ price \in Opt({10})
       /\ info \in PassThroughProfiles
       /\ stmts \in {Statements(NoneDF, NoneDF, NoneDF),
                     Statements(IncomeFull, BalanceFull, CashFull)}

-----------------------------------------------------------------------------
(* Inputs of safe_div *)

MaxOperand == 3      \* largest numerator of an operand

\* None, a value that is not a number, the non-finite floats and the
\* rationals p/q with |p| <= MaxOperand and q in {1, 2}
Operands ==
    {None, Text, NaN, PosInf, NegInf}
        \cup {Rat(p, q) : p \in -MaxOperand..MaxOperand, q \in {1, 2}}

InitDivInputs == div \in [a : Operands, b : Operands, ret : {None}, done : {FALSE}]

-----------------------------------------------------------------------------
(* Inputs of the core as a whole: a stock page's inputs, and one of its     *)
(* statement tables handed to ttm_sum and latest_value                     *)

CoreProfiles ==
    {NoInfo,
     [NoInfo EXCEPT !["marketCap"] = Num(1000), !["sharesOutstanding"] = Num(100)],
     [NoInfo EXCEPT !["marketCap"] = Num(1000), !["sharesOutstanding"] = Num(100),
                    !["trailingPE"] = Num(12), !["beta"] = Num(1)]}
CoreStatements ==
    {Statements(NoneDF, NoneDF, NoneDF),
     Statements(IncomeFull, BalanceFull, CashFull),
     Statements(IncomeShort, BalanceYahoo, CashNoCapex)}
CoreCands ==
    {<<c_net_income, c_net_income_common>>, <<c_total_debt, c_long_term_debt>>,
     <<c_capital_expenditures>>}

InitCoreInputs ==
    /\ price \in Opt({10})
    /\ info \in CoreProfiles
    /\ stmts \in CoreStatements
    /\ df \in {stmts[key] : key \in {"income_q", "bs_a", "cf_q"}}
    /\ cands \in CoreCands

-----------------------------------------------------------------------------
(* Inputs of get_statements: every combination of provider answers *)

TableOf(key) ==
    CASE key \in {"income_q", "income_a"} -> IncomeFull
      [] key \in {"bs_q", "bs_a"} -> BalanceFull
      [] key \in {"cf_q", "cf_a"} -> CashFull

Response(kind, key) ==
    CASE kind = "raise" -> Failure
      [] kind = "empty" -> Answer(EmptyDF)
      [] kind = "table" -> Answer(TableOf(key))

InitFetchInputs ==
    \E kind \in [StatementKeys -> {"raise", "empty", "table"}] :
        fetch = [NoFetch EXCEPT !.resp = [key \in StatementKeys |->
                                              Response(kind[key], key)]]

-----------------------------------------------------------------------------
(* Inputs of get_tsx_universe *)

MaxSyms == 3         \* rows of a table whose symbols vary
MaxLimit == 2        \* largest limit

H_Symbol == <<"S","y","m","b","o","l">>
H_Ticker == <<"T","i","c","k","e","r">>
H_Company == <<"C","o","m","p","a","n","y">>
H_Sector == <<"S","e","c","t","o","r">>
H_Weight == <<"W","e","i","g","h","t">>
Headers == {H_Symbol, H_Ticker, H_Company, H_Sector, H_Weight}

S_RY == <<"R","Y">>
S_RY_TO == <<"R","Y",".","T","O">>
S_TD == <<" ","T","D">>
S_GSPTSE == <<"^","G","S","P","T","S","E">>
SymbolCells == {Str(S_RY), Str(S_RY_TO), Str(S_TD), Str(S_GSPTSE), NanCell}

Page(tables) == [raises |-> FALSE, tables |-> tables]
Table(columns, rows) == [columns |-> columns, rows |-> rows]

\* pages whose headers vary: one or two tables of one row
HeaderTables ==
    {Table(columns, << [c \in 1..Len(columns) |-> Str(S_RY)] >>) :
        columns \in DistinctSeqs(Headers, 2)}
HeaderPages ==
    {Page(<<t>>) : t \in HeaderTables} \cup {Page(<<t, u>>) : t, u \in HeaderTables}

\* pages whose symbols vary: one table with a symbol and a company column
SymbolPages ==
    {Page(<< Table(<<H_Symbol, H_Company>>,
                   [r \in 1..Len(syms) |-> <<syms[r], Str(S_RY)>>]) >>) :
        syms \in UNION {[1..m -> SymbolCells] : m \in 0..MaxSyms}}

Limits == {None} \cup {Num(l) : l \in -1..MaxLimit}

InitUniInputs ==
    \E page \in {NoPage, Page(<<>>)} \cup HeaderPages \cup SymbolPages, limit \in Limits :
        uni = [NoUni EXCEPT !.page = page, !.limit = limit]

-----------------------------------------------------------------------------
(* Inputs of _ttm_from_quarterly: quarterly tables as the provider gives    *)
(* them, their periods in any order                                         *)

InitTtmInputs ==
    /\ df \in PeriodTables(<<L_EBITDA, L_NetIncome>>) \cup {NoneDF, EmptyDF}
    /\ cands = <<>>
    /\ agg = AggIdle
    /\ ttm = NoTtm

-----------------------------------------------------------------------------
(* Inputs of aggregate_news *)

MaxNewsLimit == 2    \* largest limit
MaxLinks == 4        \* links the feeds can serve during the collection

T_Stocks == <<"S","t","o","c","k","s"," ","r","a","l","l","y">>
T_Marche == <<"L","e"," ","m","a","r","c","h","e"," ","r","e","c","u","l","e">>
T_Tsx == <<"T","S","X"," ","g","a","i","n","s">>
Titles == {T_Marche, T_Tsx}
Times == {1, 2}
Hosts == <<fr_finance_yahoo_com, ca_finance_yahoo_com, finance_yahoo_com>>

Item(link, source, title, published) ==
    [link |-> link, source |-> source, title |-> title, published |-> published]

\* what the feeds can serve when the ranking is looked at: three links, one
\* per host, under any title and with or without a publication time
RankPool ==
    {Item(l, Hosts[l], t, p) : l \in 1..3, t \in Titles, p \in {0} \cup Times}

\* what the feeds can serve when the collection is looked at
LinkPool ==
    {Item(l, finance_yahoo_com, T_Stocks, 1) : l \in 1..MaxLinks}

InitNewsInputs(pool) ==
    \E limit \in 1..MaxNewsLimit :
        news = [NoNews EXCEPT !.limit = limit, !.pool = pool]

-----------------------------------------------------------------------------
(* Inputs of _resolve_query_to_ticker *)

Q_ry == <<"r","y">>
Q_ry_blank == <<" ","r","y"," ">>
Q_shop == <<"S","H","O","P","."," ","t","o">>
Q_td_to == <<"t","d",".","t","o">>
Q_gsptse == <<"^","g","s","p","t","s","e">>
Q_cafe == <<"c","a","f","e'">>
Q_energir == <<"E'","n","e","r","g","i","r">>
Q_royal == <<"R","o","y","a","l"," ","B","a","n","k">>
Q_bank == <<"b","a","n","k","s">>
Q_suncor == <<"s","u","n","c","o","r">>
Q_bbd_b == <<"b","b","d",".","b">>
Q_blank == <<" "," ">>
Queries == {<<>>, Q_ry, Q_ry_blank, Q_shop, Q_td_to, Q_gsptse, Q_cafe, Q_energir, Q_royal,
            Q_bank, Q_suncor, Q_bbd_b, Q_blank}

Hit(symbol) == [symbol |-> symbol, name |-> symbol]
Found == {<<>>, <<Hit(S_RY_TO)>>, <<Hit(S_RY_TO), Hit(S_GSPTSE)>>, <<Hit(S_GSPTSE), Hit(S_RY_TO)>>}

InitQueryInputs ==
    query \in [text : Queries, found : Found, exists : BOOLEAN, done : {FALSE},
               ret : {Resolved(<<>>, <<>>, FALSE)}]

-----------------------------------------------------------------------------
(* Inputs of get_top_movers *)

MaxTickers == 4      \* tickers of a price table
MaxTopN == 2         \* largest top_n

Tickers == <<"RY.TO", "TD.TO", "ENB.TO", "SHOP.TO", "BNS.TO", "CNQ.TO">>

\* three days of prices: every ticker closed at 2 on the first day; on the
\* second day it closed at 2 or did not trade, on the third it closed at a
\* price of its own or did not trade; the returns are pairwise distinct
PriceTables ==
    {Prices(SubSeq(Tickers, 1, n), <<[c \in 1..n |-> Num(2)], mid, last>>) :
        <<n, mid, last>> \in
            {x \in UNION {{m} \X [1..m -> {Num(2), NaN}] \X [1..m -> {NaN} \cup {Num(v) : v \in 1..5}] :
                             m \in 1..MaxTickers} :
                /\ \A i, j \in 1..x[1] : (i # j /\ x[3][i] # NaN) => x[3][i] # x[3][j]
                /\ Cardinality({u \in 1..x[1] : x[3][u] \in {NaN, Num(2)}}) <= 1}}

ShortTables ==
    {Prices(<<>>, <<>>), Prices(<<"RY.TO">>, <<>>), Prices(<<"RY.TO", "TD.TO">>, << <<Num(2), Num(3)>> >>)}

InitMoversInputs ==
    \E px \in PriceTables \cup ShortTables, top_n \in 1..MaxTopN :
        movers = [NoMovers EXCEPT !.px = px, !.top_n = top_n]

-----------------------------------------------------------------------------
(* Inputs of the stock page: what the provider knows of the issuer *)

ProviderValue ==
    [key \in InfoKeys |->
        CASE key = "marketCap" -> Num(1000)
          [] key = "sharesOutstanding" -> Num(100)
          [] key = "trailingPE" -> Num(12)
          [] key = "priceToBook" -> Num(2)
          [] key = "priceToSalesTrailing12Months" -> Num(3)
          [] key = "enterpriseToEbitda" -> Num(7)
          [] key = "dividendYield" -> Rat(1, 32)
          [] key = "beta" -> Num(1)]

\* the provider's dict holds any of the fields the ratios read, and a name
ProviderAnswers ==
    {[raises |-> FALSE,
      info |-> [key \in known \cup {"longName"} |->
                   IF key = "longName" THEN Text ELSE ProviderValue[key]]] :
        known \in SUBSET InfoKeys}

InitProfileInputs ==
    /\ profile \in {[NoProfile EXCEPT !.resp = r] : r \in ProviderAnswers \cup {NoProfile.resp}}
    /\ price \in Opt({10})
    /\ info = NoInfo
    /\ stmts \in {Statements(NoneDF, NoneDF, NoneDF), Statements(IncomeFull, BalanceFull, CashFull)}
    /\ out = NoOut

-----------------------------------------------------------------------------
(* Specifications *)

RetIdle == series = <<>> /\ now = 1 /\ res = Idle
AggOff == df = NoneDF /\ cands = <<>> /\ agg = AggIdle
DivOff == div = NoDiv
FetchOff == fetch = NoFetch
UniOff == uni = NoUni
TtmOff == ttm = NoTtm
NewsOff == news = NoNews
QueryOff == query = NoQuery
MoversOff == movers = NoMovers
ProfileOff == profile = NoProfile
RatioOff ==
    /\ price = None
    /\ info = NoInfo
    /\ stmts = Statements(NoneDF, NoneDF, NoneDF)
    /\ out = NoOut

\* the return engine
Init == RetIdle /\ AggOff /\ RatioOff /\ DivOff /\ FetchOff /\ UniOff /\ TtmOff /\ NewsOff /\ QueryOff /\ MoversOff /\ ProfileOff

Next ==
    \/ Tick
    \/ \E v \in Obs : Observe(v)
    \/ \E n \in 1..MaxN : PctWindow(n)
    \/ \E n \in 1..MaxN : RetDays(n)
    \/ YtdReturn
    \/ RetYtd
    \/ GetIndexSnapshot
    \/ MacroPair
    \/ GetIndexBlock

Spec == Init /\ [][Next]_vars

\* the statement aggregator
InitAgg == RetIdle /\ RatioOff /\ DivOff /\ InitAggInputs /\ agg = AggIdle /\ FetchOff /\ UniOff /\ TtmOff /\ NewsOff /\ QueryOff /\ MoversOff /\ ProfileOff

NextAgg == ColLike \/ TtmSum \/ LatestValue

SpecAgg == InitAgg /\ [][NextAgg]_vars

\* the ratio calculator
InitRatio == RetIdle /\ AggOff /\ DivOff /\ InitRatioInputs /\ out = NoOut /\ FetchOff /\ UniOff /\ TtmOff /\ NewsOff /\ QueryOff /\ MoversOff /\ ProfileOff

NextRatio == ComputeCoreRatios

SpecRatio == InitRatio /\ [][NextRatio]_vars

\* the core: compute_core_ratios, ttm_sum and latest_value called in any order
InitCore == RetIdle /\ DivOff /\ InitCoreInputs /\ out = NoOut /\ agg = AggIdle /\ FetchOff /\ UniOff /\ TtmOff /\ NewsOff /\ QueryOff /\ MoversOff /\ ProfileOff

NextCore == ComputeCoreRatios \/ TtmSum \/ LatestValue

SpecCore == InitCore /\ [][NextCore]_vars

\* get_statements on its own
InitFetch == RetIdle /\ AggOff /\ RatioOff /\ DivOff /\ UniOff /\ InitFetchInputs /\ TtmOff /\ NewsOff /\ QueryOff /\ MoversOff /\ ProfileOff

NextFetch == GetStatements

SpecFetch == InitFetch /\ [][NextFetch]_vars

\* get_tsx_universe on its own
InitUni == RetIdle /\ AggOff /\ RatioOff /\ DivOff /\ FetchOff /\ InitUniInputs /\ TtmOff /\ NewsOff /\ QueryOff /\ MoversOff /\ ProfileOff

NextUni == GetTsxUniverse

SpecUni == InitUni /\ [][NextUni]_vars

\* the statement page
InitTtm == RetIdle /\ RatioOff /\ DivOff /\ FetchOff /\ UniOff /\ InitTtmInputs /\ NewsOff /\ QueryOff /\ MoversOff /\ ProfileOff

NextTtm == TtmFromQuarterly

SpecTtm == InitTtm /\ [][NextTtm]_vars

\* the news page: the collection
InitNews == RetIdle /\ AggOff /\ RatioOff /\ DivOff /\ FetchOff /\ UniOff /\ TtmOff /\ InitNewsInputs(LinkPool) /\ QueryOff /\ MoversOff /\ ProfileOff

NextNews == AggregateNews \/ AddItem \/ EndFeed \/ Rank

SpecNews == InitNews /\ [][NextNews]_vars

\* the news page: the ranking
InitRank == RetIdle /\ AggOff /\ RatioOff /\ DivOff /\ FetchOff /\ UniOff /\ TtmOff /\ InitNewsInputs(RankPool) /\ QueryOff /\ MoversOff /\ ProfileOff

SpecRank == InitRank /\ [][NextNews]_vars

\* the stock page: the search box
InitQuery == RetIdle /\ AggOff /\ RatioOff /\ DivOff /\ FetchOff /\ UniOff /\ TtmOff /\ NewsOff /\ InitQueryInputs /\ MoversOff /\ ProfileOff

NextQuery == ResolveQuery

SpecQuery == InitQuery /\ [][NextQuery]_vars

\* the movers of the day
InitMovers == RetIdle /\ AggOff /\ RatioOff /\ DivOff /\ FetchOff /\ UniOff /\ TtmOff /\ NewsOff /\ QueryOff /\ InitMoversInputs /\ ProfileOff

NextMovers == GetTopMovers

SpecMovers == InitMovers /\ [][NextMovers]_vars

\* the stock page: profile, then ratios
InitProfile == RetIdle /\ AggOff /\ DivOff /\ FetchOff /\ UniOff /\ TtmOff /\ NewsOff /\ QueryOff /\ MoversOff /\ InitProfileInputs

NextProfile == GetProfile \/ RatiosOfProfile

SpecProfile == InitProfile /\ [][NextProfile]_vars

\* safe_div on its own
InitDiv == RetIdle /\ AggOff /\ RatioOff /\ InitDivInputs /\ FetchOff /\ UniOff /\ TtmOff /\ NewsOff /\ QueryOff /\ MoversOff /\ ProfileOff

NextDiv == SafeDiv

SpecDiv == InitDiv /\ [][NextDiv]_vars

-----------------------------------------------------------------------------
(* Properties of the return engine (specification Spec) *)

\* positions of the series that hold a close
Present == {i \in 1..Len(series) : series[i].v.k = "num"}
\* the position n closes before the last close
Back(n) == CHOOSE i \in Present : Cardinality({j \in Present : j > i}) = n
\* positions that hold a close of the current calendar year
Year(t) == (t - 1) \div YearLen
ThisYear == {i \in Present : Year(series[i].t) >= Year(now)}
\* last / base - 1 of two closes, base # 0
Return(last, base) == Rat(last.n * base.d - base.n * last.d, base.n * last.d)

Example == [i \in 1..5 |-> [t |-> i, v |-> Num(<<100, 102, 101, 105, 110>>[i])]]

\* C1: with at most n closes in the series, the n-day return of pct_window
\* and of _ret_days is None (not zero, and no exception)
C1_ShortSeriesUndefined ==
    (res.op \in {"pct_window", "_ret_days"} /\ Cardinality(Present) <= res.n)
        => res.ret = None

C1_Witness ==
    /\ res.op = "pct_window"
    /\ Len(series) > res.n
    /\ Cardinality(Present) = res.n

\* C2: with more than n closes, the n-day return is the last close over the
\* close n closes earlier, minus 1; rows without a close take no position.
\* The series 100, 102, 101, 105, 110 gives 110/105 - 1, 0.10 and None for
\* n = 1, 4 and 5
C2_WindowedReturnValue ==
    /\ (res.op \in {"pct_window", "_ret_days"} /\ Cardinality(Present) > res.n
            /\ series[Back(res.n)].v.n # 0)
          => res.ret = Return(series[Max(Present)].v, series[Back(res.n)].v)
    /\ res.op = "pct_window" =>
          /\ pct_window(Example, 1) = Rat(110 - 105, 105)
          /\ pct_window(Example, 4) = Rat(1, 10)
          /\ pct_window(Example, 5) = None
    /\ res.op = "_ret_days" =>
          /\ _ret_days(Example, 1) = Rat(110 - 105, 105)
          /\ _ret_days(Example, 4) = Rat(1, 10)
          /\ _ret_days(Example, 5) = None

C2_Witness ==
    /\ res.op = "pct_window"
    /\ Cardinality(Present) > res.n
    /\ \E i \in 1..Len(series) : i > Back(res.n) /\ i < Max(Present) /\ series[i].v = NaN
    /\ series[Back(res.n)].v.n # 0
    /\ res.ret = Num(1)

\* C3: the year-to-date return of ytd_return and of _ret_ytd is None with
\* fewer than 2 closes dated in the current year, and otherwise the last of
\* them over the first of them, minus 1
C3_YtdReturnValue ==
    res.op \in {"ytd_return", "_ret_ytd"} =>
        IF Cardinality(ThisYear) < 2 THEN res.ret = None
        ELSE series[Min(ThisYear)].v.n # 0
                => res.ret = Return(series[Max(ThisYear)].v, series[Min(ThisYear)].v)

C3_Witness ==
    /\ res.op = "ytd_return"
    /\ Cardinality(ThisYear) = 1
    /\ Cardinality(Present) > 1
    /\ res.ret = None

\* C4: the year-to-date figure of an index or macro card is undefined (None
\* or nan) with fewer than 2 closes dated in the current year
C4_IndexYtdNeedsTwoCloses ==
    (res.op \in {"get_index_snapshot", "macro_pair_last_and_returns", "get_index_block"}
        /\ Cardinality(ThisYear) < 2)
        => res.ytd \in {None, NaN}

\* C20: with a base close of 0 (the close n closes before the last one for a
\* windowed return, the first close of the year for a year-to-date return)
\* pct_window, _ret_days, ytd_return and _ret_ytd return None
C20_ZeroBaseUndefined ==
    /\ (/\ res.op \in {"pct_window", "_ret_days"}
        /\ Cardinality(Present) > res.n
        /\ series[Back(res.n)].v = Num(0))
          => res.ret = None
    /\ (/\ res.op \in {"ytd_return", "_ret_ytd"}
        /\ Cardinality(ThisYear) >= 2
        /\ series[Min(ThisYear)].v = Num(0))
          => res.ret = None

-----------------------------------------------------------------------------
(* Properties of the statement aggregator (specification SpecAgg) *)

\* the row that holds label l, and the columns of row r that hold a value
RowOf(l) == CHOOSE r \in 1..Len(df.index) : df.index[r] = l
Valued(r) == {c \in 1..Len(df.columns) : df.vals[r][c].k = "num"}
\* the (at most) n columns of V with the latest period dates
Latest(V, n) == {c \in V : Cardinality({e \in V : df.columns[e] > df.columns[c]}) < n}

RECURSIVE SumOver(_, _)
SumOver(r, C) ==
    IF C = {} THEN 0
    ELSE LET c == CHOOSE x \in C : TRUE
         IN  df.vals[r][c].n + SumOver(r, C \ {c})

\* C5: ttm_sum is None when the resolved line item has fewer than 4 values
C5_TtmNeedsFourQuarters ==
    agg.op = "ttm_sum" =>
        LET resolved == _col_like(df, cands)
        IN  (resolved # NoLabel /\ Cardinality(Valued(RowOf(resolved.v))) < 4)
                => agg.val = None

\* C6: with at least 4 values, ttm_sum is the sum of the 4 values with the
\* latest period dates, whatever the order of the columns, the older values
\* and the periods without a value
C6_TtmSumsLatestFour ==
    agg.op = "ttm_sum" =>
        LET resolved == _col_like(df, cands)
            r == RowOf(resolved.v)
            V == Valued(r)
        IN  (resolved # NoLabel /\ Cardinality(V) >= 4)
                => agg.val = Num(SumOver(r, Latest(V, 4)))

C6_Witness ==
    /\ agg.op = "ttm_sum"
    /\ _col_like(df, cands) = Label(L_NetIncome)
    /\ Len(df.columns) = 5
    /\ Cardinality(Valued(RowOf(L_NetIncome))) = 5
    /\ df.columns[1] = 5
    /\ agg.val = Num(2 + 4 + 8 + 16)

\* C7: _col_like returns None for an absent or empty table or when no label
\* contains a candidate, and otherwise the first label, in row order, that
\* contains (ignoring case) the first candidate that some label contains
Matches(i, j) == contains(lower(df.index[i]), lower(cands[j]))
Matching == {j \in 1..Len(cands) : \E i \in 1..Len(df.index) : Matches(i, j)}
C7_FirstCandidateFirstRow ==
    agg.op = "_col_like" =>
        IF df.none \/ empty(df) \/ Matching = {} THEN agg.row = NoLabel
        ELSE agg.row =
                Label(df.index[Min({i \in 1..Len(df.index) : Matches(i, Min(Matching))})])

\* C8: latest_value is the value of the resolved line item with the latest
\* period date, whatever the order of the columns, and None for an absent or
\* empty table, when no label matches, or when the row holds no value
C8_LatestValue ==
    agg.op = "latest_value" =>
        LET resolved == _col_like(df, cands)
            r == RowOf(resolved.v)
            V == Valued(r)
        IN  IF df.none \/ empty(df) \/ resolved = NoLabel THEN agg.val = None
            ELSE IF V = {} THEN agg.val = None
            ELSE \E c \in V :
                    /\ \A e \in V : df.columns[e] <= df.columns[c]
                    /\ agg.val = df.vals[r][c]

C8_Witness ==
    /\ agg.op = "latest_value"
    /\ _col_like(df, cands) = Label(L_NetIncome)
    /\ Len(df.columns) = 4
    /\ df.columns[1] = 4
    /\ df.vals[RowOf(L_NetIncome)][1] = NaN
    /\ df.columns[4] = 1
    /\ agg.val = ValueOf(3)

-----------------------------------------------------------------------------
(* Properties of the ratio calculator (specification SpecRatio) *)

Computed == out # NoOut

\* C9: a ratio whose provider field is present is that field, whatever the
\* price and the statements; the fallback counts only when it is absent
C9_ProviderValueWins ==
    Computed =>
        \A pair \in {<<"P/E (TTM)", "trailingPE">>,
                     <<"P/S (TTM)", "priceToSalesTrailing12Months">>,
                     <<"EV/EBITDA (TTM)", "enterpriseToEbitda">>} :
            info[pair[2]] # None => out[pair[1]] = info[pair[2]]

C9_Witness ==
    /\ Computed
    /\ info["trailingPE"] = Num(12)
    /\ price = Num(10)
    /\ info["sharesOutstanding"] = Num(100)
    /\ stmts["income_q"] = IncomeFull
    /\ out["P/E (TTM)"] = Num(12)

\* C10: without trailingPE, and with a price, a share count and a TTM net
\* income that are present and not zero, P/E (TTM) is
\* price / (TTM net income / sharesOutstanding); price 10, 100 shares and a
\* TTM net income of 250 give 4
NetIncomeTtm == ttm_sum(stmts["income_q"], <<c_net_income, c_net_income_common>>)
C10_PeFallback ==
    (/\ Computed
     /\ info["trailingPE"] = None
     /\ truthy(price)
     /\ truthy(info["sharesOutstanding"])
     /\ truthy(NetIncomeTtm))
        => LET sh == info["sharesOutstanding"]
               ni == NetIncomeTtm
           IN  /\ out["P/E (TTM)"].k = "num"
               /\ out["P/E (TTM)"].n * price.d * sh.d * ni.n
                     = out["P/E (TTM)"].d * price.n * sh.n * ni.d
               /\ (price = Num(10) /\ sh = Num(100) /\ ni = Num(250))
                     => out["P/E (TTM)"] = Num(4)

C10_Witness ==
    /\ Computed
    /\ info["trailingPE"] = None
    /\ price = Num(10)
    /\ info["sharesOutstanding"] = Num(100)
    /\ stmts["income_q"] = IncomeFull
    /\ NetIncomeTtm = Num(250)
    /\ out["P/E (TTM)"] = Num(4)

\* the quotient a / b of two finite numbers, b not zero
Quot(a, b) == Rat(a.n * b.d, a.d * b.n)

\* what the P/S fallback should give for a price p, a share count sh and a TTM
\* revenue: (p * sh) / revenue, undefined without a revenue that is not zero
PsOf(p, sh, sales) == IF truthy(sales) THEN Quot(FMul(p, sh), sales) ELSE None

\* C11 as stated: without priceToSalesTrailing12Months, and with a price and a
\* share count that are present, P/S (TTM) is (price * sharesOutstanding) over
\* the TTM revenue, and undefined when that revenue is absent or zero
C11_PsFallbackAnyShares ==
    (/\ Computed
     /\ info["priceToSalesTrailing12Months"] = None
     /\ price # None
     /\ info["sharesOutstanding"] # None)
        => LET sales == ttm_sum(stmts["income_q"], <<c_total_revenue, c_revenue, c_sales>>)
           IN  out["P/S (TTM)"] = PsOf(price, info["sharesOutstanding"], sales)

\* C11 amended: the same with a share count that is present and not zero; a
\* share count of 0 leaves P/S (TTM) undefined
C11_PsFallback ==
    (/\ Computed
     /\ info["priceToSalesTrailing12Months"] = None
     /\ price # None
     /\ info["sharesOutstanding"] # None)
        => LET sales == ttm_sum(stmts["income_q"], <<c_total_revenue, c_revenue, c_sales>>)
               sh == info["sharesOutstanding"]
           IN  out["P/S (TTM)"] = IF truthy(sh) THEN PsOf(price, sh, sales) ELSE None

C11_Witness ==
    /\ Computed
    /\ info["priceToSalesTrailing12Months"] = None
    /\ price = Num(10)
    /\ info["sharesOutstanding"] = Num(100)
    /\ stmts["income_q"] = IncomeFull
    /\ out["P/S (TTM)"] = Num(1)

\* C12: without enterpriseToEbitda, EV/EBITDA (TTM) is
\* (marketCap + latest annual debt - latest annual cash) over the TTM EBITDA,
\* debt and cash read from the annual balance sheet; it is undefined when
\* marketCap, debt or cash is absent or the TTM EBITDA is absent or zero
C12_EvEbitdaFallback ==
    (Computed /\ info["enterpriseToEbitda"] = None)
        => LET mcap == info["marketCap"]
               debt == latest_value(stmts["bs_a"],
                           <<c_total_debt, c_long_term_debt, c_short_long_term_debt>>)
               cash == latest_value(stmts["bs_a"], <<c_cash, c_cash_and_cash_equivalents>>)
               ebitda == ttm_sum(stmts["income_q"], <<c_ebitda>>)
           IN  IF mcap = None \/ debt = None \/ cash = None \/ ~truthy(ebitda)
               THEN out["EV/EBITDA (TTM)"] = None
               ELSE /\ out["EV/EBITDA (TTM)"].k = "num"
                    /\ out["EV/EBITDA (TTM)"]
                          = Quot(Rat(mcap.n * debt.d * cash.d + debt.n * mcap.d * cash.d
                                        - cash.n * mcap.d * debt.d,
                                     mcap.d * debt.d * cash.d), ebitda)

\* a market cap of 1000, a debt of 500 and a cash of 200 over a TTM EBITDA of
\* 500 give 13/5
C12_Witness ==
    /\ Computed
    /\ info["enterpriseToEbitda"] = None
    /\ info["marketCap"] = Num(1000)
    /\ stmts["bs_a"] = BalanceFull
    /\ stmts["income_q"] = IncomeFull
    /\ out["EV/EBITDA (TTM)"] = Rat(13, 5)

\* C13: FCF Yield (TTM) is (TTM operating cash flow - TTM capital expenditures)
\* over marketCap, whatever the profile holds besides marketCap; it is
\* undefined when either TTM sum is absent, when the quarterly cash-flow table
\* is absent or empty, or when marketCap is absent or zero
C13_FcfYield ==
    Computed
        => LET mcap == info["marketCap"]
               cf_q == stmts["cf_q"]
               ocf == ttm_sum(cf_q, <<c_total_cash_from_operating_activities,
                                      c_operating_cash_flow>>)
               capex == ttm_sum(cf_q, <<c_capital_expenditures>>)
           IN  IF cf_q.none \/ empty(cf_q) \/ ocf = None \/ capex = None \/ ~truthy(mcap)
               THEN out["FCF Yield (TTM)"] = None
               ELSE /\ out["FCF Yield (TTM)"].k = "num"
                    /\ out["FCF Yield (TTM)"]
                          = Quot(Rat(ocf.n * capex.d - capex.n * ocf.d, ocf.d * capex.d), mcap)

\* a TTM operating cash flow of 320 and TTM capital expenditures of -80 over a
\* market cap of 1000 give 400/1000 = 2/5
C13_Witness ==
    /\ Computed
    /\ info["marketCap"] = Num(1000)
    /\ stmts["cf_q"] = CashFull
    /\ out["FCF Yield (TTM)"] = Rat(2, 5)

\* C14: for an annual balance sheet with a row labelled "Total Stockholders
\* Equity" and a debt row, D/E is the latest debt over the latest value of that
\* equity row, and ROE (TTM) is the TTM net income over the same equity value
C14_DebtToEquity ==
    (/\ Computed
     /\ ~stmts["bs_a"].none
     /\ \E r \in 1..Len(stmts["bs_a"].index) :
            stmts["bs_a"].index[r] = L_TotalStockholdersEquity)
        => LET debt == latest_value(stmts["bs_a"], <<c_total_debt, c_long_term_debt>>)
               eq == latest_value(stmts["bs_a"], <<lower(L_TotalStockholdersEquity)>>)
               ni == ttm_sum(stmts["income_q"], <<c_net_income, c_net_income_common>>)
           IN  /\ (debt # None /\ truthy(eq)) => out["D/E"] = Quot(debt, eq)
               /\ (ni # None /\ truthy(eq)) => out["ROE (TTM)"] = Quot(ni, eq)

Sign(i) == IF i > 0 THEN 1 ELSE IF i < 0 THEN -1 ELSE 0

\* C15: Interest Coverage is the TTM EBIT over the absolute value of the TTM
\* interest expense; it is undefined when the TTM EBIT is absent or the TTM
\* interest expense is absent or zero, and when defined it has the sign of the
\* TTM EBIT
C15_InterestCoverage ==
    Computed
        => LET ebit == ttm_sum(stmts["income_q"], <<c_ebit, c_operating_income>>)
               int_exp == ttm_sum(stmts["income_q"], <<c_interest_expense>>)
               ic == out["Interest Coverage"]
           IN  IF ebit = None \/ ~truthy(int_exp)
               THEN ic = None
               ELSE /\ ic.k = "num"
                    /\ ic = Quot(ebit, Rat(Abs(int_exp.n), int_exp.d))
                    /\ Sign(ic.n) = Sign(ebit.n)

\* a TTM figure of 500 over a TTM interest expense of -40 gives 25/2
C15_Witness ==
    /\ Computed
    /\ stmts["income_q"] = IncomeFull
    /\ ttm_sum(stmts["income_q"], <<c_interest_expense>>) = Num(-40)
    /\ out["Interest Coverage"] = Rat(25, 2)

-----------------------------------------------------------------------------
(* Properties of safe_div (specification SpecDiv) *)

\* C16: safe_div(a, b) is None when a is absent, b is absent or b is zero;
\* for other numbers it is the quotient a / b (a float when an operand is not
\* finite); it raises for no operands, numbers or not
C16_SafeDiv ==
    div.done =>
        /\ div.ret # Raise
        /\ (div.a = None \/ div.b = None \/ div.b = Num(0)) => div.ret = None
        /\ (IsNum(div.a) /\ IsNum(div.b) /\ div.b # Num(0))
              => /\ div.ret.k = "num"
                 /\ div.ret.n * div.a.d * div.b.n = div.ret.d * div.a.n * div.b.d
        /\ (/\ div.a.k \in {"num", "nan", "inf"}
            /\ div.b.k \in {"num", "nan", "inf"}
            /\ div.b # Num(0))
              => div.ret.k \in {"num", "nan", "inf"}

\* 3 / (1/2) = 6
C16_Witness ==
    /\ div.done
    /\ div.a = Num(3)
    /\ div.b = Rat(1, 2)
    /\ div.ret = Num(6)

-----------------------------------------------------------------------------
(* Error handling of the ratio calculator (specification SpecRatio) *)

\* absent, or a denominator that is zero
Absent(x) == x = None
NoDenominator(x) == x = None \/ x = Num(0)

\* C17: a locally computed ratio whose numerator is absent, or whose
\* denominator is absent or zero, is None, never 0 and never an exception;
\* the P/E, P/S and EV/EBITDA rows count when the provider field is absent
C17_UndefinedNotZero ==
    Computed =>
        LET inc == stmts["income_q"]
            bs == stmts["bs_a"]
            cf == stmts["cf_q"]
            shares == info["sharesOutstanding"]
            mcap == info["marketCap"]
            ni == ttm_sum(inc, <<c_net_income, c_net_income_common>>)
            sales == ttm_sum(inc, <<c_total_revenue, c_revenue, c_sales>>)
            ebitda == ttm_sum(inc, <<c_ebitda>>)
            ebit == ttm_sum(inc, <<c_ebit, c_operating_income>>)
            int_exp == ttm_sum(inc, <<c_interest_expense, c_interest_expense_non_operating>>)
            ocf == ttm_sum(cf, <<c_total_cash_from_operating_activities, c_operating_cash_flow>>)
            capex == ttm_sum(cf, <<c_capital_expenditures>>)
            debt3 == latest_value(bs, <<c_total_debt, c_long_term_debt, c_short_long_term_debt>>)
            debt == latest_value(bs, <<c_total_debt, c_long_term_debt>>)
            cash == latest_value(bs, <<c_cash, c_cash_and_cash_equivalents>>)
            equity == latest_value(bs, <<c_total_stockholder_equity, c_total_shareholders_equity>>)
            assets == latest_value(bs, <<c_total_current_assets>>)
            liab == latest_value(bs, <<c_total_current_liabilities>>)
        IN  /\ \A name \in RatioNames : out[name] # Raise
            /\ (/\ info["trailingPE"] = None
                /\ \/ Absent(price)
                   \/ Absent(ni) \/ NoDenominator(shares)     \* no EPS
                   \/ NoDenominator(ni))                      \* EPS of zero
                  => out["P/E (TTM)"] = None
            /\ (/\ info["priceToSalesTrailing12Months"] = None
                /\ Absent(price) \/ Absent(shares) \/ NoDenominator(sales))
                  => out["P/S (TTM)"] = None
            /\ (/\ info["enterpriseToEbitda"] = None
                /\ Absent(mcap) \/ Absent(debt3) \/ Absent(cash) \/ NoDenominator(ebitda))
                  => out["EV/EBITDA (TTM)"] = None
            /\ (Absent(ocf) \/ Absent(capex) \/ NoDenominator(mcap))
                  => out["FCF Yield (TTM)"] = None
            /\ (Absent(ni) \/ NoDenominator(equity)) => out["ROE (TTM)"] = None
            /\ (Absent(debt) \/ NoDenominator(equity)) => out["D/E"] = None
            /\ (Absent(assets) \/ NoDenominator(liab)) => out["Current Ratio"] = None
            /\ (Absent(ebit) \/ NoDenominator(int_exp)) => out["Interest Coverage"] = None

\* no price, a market cap of 0, statements whose denominators are all zero
\* and no cash-flow table: the eight computed ratios are None
C17_Witness ==
    /\ Computed
    /\ price = None
    /\ info = [NoInfo EXCEPT !["marketCap"] = Num(0), !["sharesOutstanding"] = Num(100)]
    /\ stmts = Statements(IncomeZero, BalanceZero, NoneDF)
    /\ \A name \in RatioNames : out[name] = None

\* the ratios that read the price, a profile field or a statement table
Readers(input) ==
    CASE input = "price" -> {"P/E (TTM)", "P/S (TTM)"}
      [] input = "sharesOutstanding" -> {"P/E (TTM)", "P/S (TTM)"}
      [] input = "marketCap" -> {"EV/EBITDA (TTM)", "FCF Yield (TTM)"}
      [] input = "trailingPE" -> {"P/E (TTM)"}
      [] input = "priceToBook" -> {"P/B"}
      [] input = "priceToSalesTrailing12Months" -> {"P/S (TTM)"}
      [] input = "enterpriseToEbitda" -> {"EV/EBITDA (TTM)"}
      [] input = "dividendYield" -> {"Dividend Yield"}
      [] input = "beta" -> {"Beta"}
      [] input = "income_q" -> {"P/E (TTM)", "P/S (TTM)", "EV/EBITDA (TTM)", "ROE (TTM)",
                                "Interest Coverage"}
      [] input = "bs_a" -> {"EV/EBITDA (TTM)", "ROE (TTM)", "D/E", "Current Ratio"}
      [] input = "cf_q" -> {"FCF Yield (TTM)"}

Tables == {"income_q", "bs_a", "cf_q"}

\* the RatioSet of the inputs of the state with one input made absent
Without(input) ==
    IF input = "price" THEN compute_core_ratios(None, info, stmts)
    ELSE IF input \in Tables
         THEN compute_core_ratios(price, info, [stmts EXCEPT ![input] = NoneDF])
    ELSE compute_core_ratios(price, [info EXCEPT ![input] = None], stmts)

IsPresent(input) ==
    IF input = "price" THEN price # None
    ELSE IF input \in Tables THEN ~stmts[input].none
    ELSE info[input] # None

\* C18: the RatioSet has exactly the 11 ratio names, and making one input
\* that is present absent leaves every ratio that does not read it as it was
C18_PartialResults ==
    Computed =>
        /\ DOMAIN out = RatioNames
        /\ Cardinality(DOMAIN out) = 11
        /\ \A input \in {"price"} \cup InfoKeys \cup Tables :
              IsPresent(input) =>
                  LET partial == Without(input)
                  IN  \A name \in RatioNames \ Readers(input) :
                          partial[name] = out[name]

\* without an income table the ratios that read it are undefined and the
\* others are computed
C18_Witness ==
    /\ Computed
    /\ info["marketCap"] = Num(1000)
    /\ stmts = Statements(NoneDF, BalanceFull, CashFull)
    /\ out["ROE (TTM)"] = None
    /\ out["Interest Coverage"] = None
    /\ out["D/E"] = Rat(1, 2)
    /\ out["Current Ratio"] = Num(2)
    /\ out["FCF Yield (TTM)"] = Rat(2, 5)

-----------------------------------------------------------------------------
(* Purity of the core (specification SpecCore) *)

CoreInputs == <<price, info, stmts, df, cands>>

\* a result is what the function gives on the inputs as they are now
Reproducible ==
    /\ Computed => out = compute_core_ratios(price, info, stmts)
    /\ agg.op = "ttm_sum" => agg.val = ttm_sum(df, cands)
    /\ agg.op = "latest_value" => agg.val = latest_value(df, cands)

-----------------------------------------------------------------------------
(* Properties of the data source (specification SpecFetch) *)

Families == {<<"income_q", "income_a">>, <<"bs_q", "bs_a">>, <<"cf_q", "cf_a">>}

\* C22: get_statements never raises and returns the six keys, each a table;
\* a family one of whose two fetches failed has both tables empty, and a
\* family without failure has the two tables the provider gave, whatever
\* happened to the other families
C22_StatementsPerFamily ==
    fetch.done =>
        /\ ~fetch.raised
        /\ DOMAIN fetch.out = StatementKeys
        /\ \A key \in StatementKeys : ~fetch.out[key].none
        /\ \A fam \in Families :
              IF fetch.resp[fam[1]].raises \/ fetch.resp[fam[2]].raises
              THEN fetch.out[fam[1]] = EmptyDF /\ fetch.out[fam[2]] = EmptyDF
              ELSE /\ fetch.out[fam[1]] = fetch.resp[fam[1]].table
                   /\ fetch.out[fam[2]] = fetch.resp[fam[2]].table

\* the annual income fetch fails: both income tables are empty, the balance
\* sheets and the cash flows are the provider's
C22_Witness ==
    /\ fetch.done
    /\ ~fetch.resp["income_q"].raises
    /\ fetch.resp["income_a"].raises
    /\ fetch.out["income_q"] = EmptyDF
    /\ fetch.out["income_a"] = EmptyDF
    /\ fetch.out["bs_a"] = BalanceFull
    /\ fetch.out["cf_q"] = CashFull

-----------------------------------------------------------------------------
(* Properties of get_tsx_universe (specification SpecUni) *)

\* the page cannot be used: it is unreadable, no table has a symbol or
\* ticker column, or the first such table has two of them (the
\* normalisation of the symbols then raises)
Unusable(page) ==
    \/ page.raises
    \/ \A i \in 1..Len(page.tables) :
          \A c \in 1..Len(page.tables[i].columns) :
              ~is_symbol_column(page.tables[i].columns[c])
    \/ LET i == Min({j \in 1..Len(page.tables) :
                       \E c \in 1..Len(page.tables[j].columns) :
                           is_symbol_column(page.tables[j].columns[c])})
       IN  Cardinality({c \in 1..Len(page.tables[i].columns) :
                           is_symbol_column(page.tables[i].columns[c])}) > 1

WellFormed(ret) ==
    /\ \A i \in 1..Len(ret.symbols) :
          endswith(ret.symbols[i], dotTO) \/ startswith(ret.symbols[i], <<"^">>)
    /\ \A i, j \in 1..Len(ret.symbols) : i # j => ret.symbols[i] # ret.symbols[j]

\* C23 as stated: get_tsx_universe never raises; an unusable page gives the
\* empty table with the columns symbol, name, sector, industry; otherwise
\* every symbol ends with ".TO" or starts with "^", no symbol comes twice and
\* there are at most `limit` rows
C23_UniverseAnyLimit ==
    uni.done =>
        /\ ~uni.ret.raised
        /\ IF Unusable(uni.page) THEN uni.ret = EmptyUniverse
           ELSE /\ WellFormed(uni.ret)
                /\ uni.limit # None => Len(uni.ret.symbols) <= uni.limit.n

\* C23 amended: at most `limit` rows for a limit that is positive; a limit
\* of 0, like None, does not cut the table
C23_Universe ==
    uni.done =>
        /\ ~uni.ret.raised
        /\ IF Unusable(uni.page) THEN uni.ret = EmptyUniverse
           ELSE /\ WellFormed(uni.ret)
                /\ (uni.limit # None /\ uni.limit.n > 0)
                      => Len(uni.ret.symbols) <= uni.limit.n

\* "RY", "RY.TO" and " TD" with a limit of 2 give RY.TO and TD.TO
C23_Witness ==
    /\ uni.done
    /\ ~Unusable(uni.page)
    /\ Len(uni.page.tables[1].rows) = 3
    /\ uni.page.tables[1].rows[1][1] = Str(S_RY)
    /\ uni.page.tables[1].rows[2][1] = Str(S_RY_TO)
    /\ uni.page.tables[1].rows[3][1] = Str(S_TD)
    /\ uni.limit = Num(2)
    /\ uni.ret.symbols = << S_RY \o dotTO, <<"T", "D">> \o dotTO >>

-----------------------------------------------------------------------------
(* Properties of the statement page *)

\* the columns holding the n most recent periods of a table
Recent(t, n) ==
    {c \in 1..Len(t.columns) :
        Cardinality({x \in 1..Len(t.columns) : t.columns[x] > t.columns[c]}) < n}

RECURSIVE Total(_, _, _)
Total(t, r, C) ==
    IF C = {} THEN Num(0)
    ELSE LET c == CHOOSE x \in C : TRUE
             rest == Total(t, r, C \ {c})
         IN  IF IsNum(t.vals[r][c]) THEN FAdd(rest, t.vals[r][c]) ELSE rest

\* C24: after _coerce_df the period columns are ordered most recent first,
\* and _ttm_from_quarterly on such a table with at least 4 columns returns a
\* Series named "TTM" holding, for every line item, the sum of its 4 most
\* recent quarterly values; with fewer than 4 columns, or an empty or
\* non-table input, it returns None
C24_TtmFromQuarterly ==
    ttm.done =>
        /\ \A i, j \in 1..Len(ttm.table.columns) :
               i < j => ttm.table.columns[i] > ttm.table.columns[j]
        /\ IF df.none \/ empty(df) \/ Len(df.columns) < TtmQuarters
           THEN ttm.ret = NoSeries
           ELSE /\ ~ttm.ret.none
                /\ ttm.ret.name = "TTM"
                /\ ttm.ret.index = df.index
                /\ \A r \in 1..Len(df.index) :
                       ttm.ret.vals[r] = Total(df, r, Recent(df, TtmQuarters))

\* the part of C24 the code does satisfy: the ordering, and None for short input
C24_CoercedOrder ==
    ttm.done =>
        /\ \A i, j \in 1..Len(ttm.table.columns) :
               i < j => ttm.table.columns[i] > ttm.table.columns[j]
        /\ (df.none \/ empty(df) \/ Len(df.columns) < TtmQuarters) => ttm.ret = NoSeries

-----------------------------------------------------------------------------
(* Properties of the news page *)

Preferred(item) == _score_item(item) >= 50

\* C25: aggregate_news(limit) returns at most limit items, no two of which
\* share a link, each the first item served with its link; every item
\* scoring >= 50 comes before every item scoring < 50; inside each group the
\* items are in descending order of (score, publication time), an item
\* without publication time coming after the dated items of equal score
C25_RankedNews ==
    news.pc = "done" =>
        LET ret == news.ret
        IN  /\ Len(ret) <= news.limit
            /\ \A i \in 1..Len(ret) : ret[i] \in news.first
            /\ \A i, j \in 1..Len(ret) :
                  i < j =>
                      /\ ret[i].link # ret[j].link
                      /\ ~(~Preferred(ret[i]) /\ Preferred(ret[j]))
                      /\ Preferred(ret[i]) = Preferred(ret[j]) =>
                            \/ _score_item(ret[i]) > _score_item(ret[j])
                            \/ /\ _score_item(ret[i]) = _score_item(ret[j])
                               /\ ret[i].published >= ret[j].published

\* a call that collected more than it returns: the item of the third feed
\* read comes first, an item scoring under 50 is left out
C25_Witness ==
    /\ news.pc = "done"
    /\ Len(news.raw) = 3
    /\ Len(news.ret) = 2
    /\ ~Preferred(news.raw[2])
    /\ news.ret = <<news.raw[3], news.raw[1]>>

\* a call that returns two items of equal score, the later published first
C25_WitnessTimes ==
    /\ news.pc = "done"
    /\ Len(news.ret) = 2
    /\ _score_item(news.ret[1]) = _score_item(news.ret[2])
    /\ news.ret[1].published > news.ret[2].published
    /\ news.raw[1] = news.ret[2]

C30_WitnessSkip ==
    /\ news.pc = "done"
    /\ Len(news.log) = 1
    /\ Len(news.raw) >= 2 * news.limit

-----------------------------------------------------------------------------
(* Properties of the search box *)

\* the query as the resolver sees it: blanks at both ends removed, accents
\* removed, in upper case
Seen(text) == upper(_strip_accents(strip(text)))

\* at most 5 letters, or ending in .TO, or beginning with ^
TickerLike(q) ==
    \/ Len(q) \in 1..5 /\ \A i \in 1..Len(q) : \E j \in 1..26 : q[i] = UpperAlpha[j]
    \/ endswith(q, dotTO)
    \/ startswith(q, <<"^">>)

\* the symbol a ticker-like query stands for
Ticker(q) == IF q = <<>> \/ q[1] = "^" \/ endswith(q, dotTO) THEN q ELSE q \o dotTO

\* C26: an empty query resolves to ("", []); a ticker-like query to its
\* normalised ticker with no hits and without a search; any other query to
\* the symbol of the hit when the search finds exactly one, to "" with the
\* hits when it finds several, and with no hit to the normalised query if
\* that symbol exists and to "" otherwise
C26_ResolveQuery ==
    query.done =>
        LET q == Seen(query.text)
            ret == query.ret
        IN  IF query.text = <<>> THEN ret = Resolved(<<>>, <<>>, FALSE)
            ELSE IF TickerLike(q) THEN ret = Resolved(Ticker(q), <<>>, FALSE)
            ELSE /\ ret.searched
                 /\ Len(query.found) = 1 =>
                       ret.ticker = query.found[1].symbol /\ ret.hits = query.found
                 /\ Len(query.found) > 1 => ret.ticker = <<>> /\ ret.hits = query.found
                 /\ Len(query.found) = 0 =>
                       /\ ret.hits = <<>>
                       /\ ret.ticker = (IF query.exists THEN Ticker(q) ELSE <<>>)

\* "cafe" with an accent typed while a search would find two hits: resolved
\* to CAFE.TO without a search
C26_Witness ==
    /\ query.done
    /\ query.text = Q_cafe
    /\ Len(query.found) = 2
    /\ query.ret = Resolved(<<"C","A","F","E",".","T","O">>, <<>>, FALSE)

\* a name the search finds twice: no ticker, both hits
C26_WitnessSeveral ==
    /\ query.done
    /\ query.text = Q_royal
    /\ Len(query.found) = 2
    /\ query.ret = Resolved(<<>>, query.found, TRUE)

-----------------------------------------------------------------------------
(* Properties of the movers of the day *)

\* the 1-day return of column c: last close over the close before it, minus
\* 1, a day without trade counting with the close before it
CloseAt(px, r, c) == px.rows[Max({x \in 1..r : px.rows[x][c] # NaN})][c]
Return1d(px, c) ==
    LET a == CloseAt(px, Len(px.rows), c)
        b == CloseAt(px, Len(px.rows) - 1, c)
    IN  Rat(a.n * b.d - b.n * a.d, b.n * a.d)

\* the number of tickers with a higher return than column c
Above(px, c) ==
    Cardinality({x \in 1..Len(px.columns) : gt(Return1d(px, x), Return1d(px, c))})

\* the rows are the columns C in descending order of return, from row `from` on
Lists(px, rows, from, C) ==
    \A c \in C :
        LET i == from + Cardinality({x \in C : gt(Return1d(px, x), Return1d(px, c))})
        IN  /\ i \in 1..Len(rows)
            /\ rows[i] = [ticker |-> px.columns[c], ret_1d |-> Return1d(px, c)]

MoversOf(px, top_n, ret) ==
    LET n == Len(px.columns)
        high == {c \in 1..n : Above(px, c) < top_n}
        low == {c \in 1..n : Above(px, c) >= n - top_n}
    IN  /\ ret.columns = <<"ticker", "ret_1d">>
        /\ Lists(px, ret.rows, 1, high)
        /\ Lists(px, ret.rows, Len(ret.rows) - Cardinality(low) + 1, low)
        /\ \A i, j \in 1..Len(ret.rows) : i # j => ret.rows[i].ticker # ret.rows[j].ticker

\* C27: get_top_movers returns the top_n tickers of highest 1-day return
\* followed by the top_n of lowest, each ticker once, the return being
\* last / previous - 1 over the last two rows of the forward-filled prices;
\* an empty table with the columns ticker and ret_1d when the prices are
\* empty or have fewer than 2 rows
C27_TopMovers ==
    movers.done =>
        IF Len(movers.px.columns) = 0 \/ Len(movers.px.rows) < 2
        THEN movers.ret = EmptyMovers
        ELSE MoversOf(movers.px, movers.top_n, movers.ret)

\* what holds of C27: the statement for tables of at least 2 x top_n tickers
C27_TopMoversOfMany ==
    (movers.done /\ Len(movers.px.columns) >= 2 * movers.top_n) => C27_TopMovers

-----------------------------------------------------------------------------
(* Candidates that contain an earlier candidate *)

Remove(q, j) == SubSeq(q, 1, j - 1) \o SubSeq(q, j + 1, Len(q))

\* the candidates that contain an earlier candidate of the list
Shadowed == {j \in 1..Len(cands) : \E i \in 1..(j - 1) : contains(lower(cands[j]), lower(cands[i]))}

Position(l) == CHOOSE r \in 1..Len(df.index) : df.index[r] = l

\* C28: a candidate that contains an earlier candidate of its list never
\* determines the result of _col_like: the result is that of the list
\* without it, and a row it matches is matched by the earlier candidate;
\* "ebit" first resolves to the EBITDA row when that row precedes the EBIT row
C28_ShadowedCandidate ==
    agg.op = "_col_like" =>
        /\ \A j \in Shadowed :
              /\ agg.row = _col_like(df, Remove(cands, j))
              /\ \A r \in 1..Len(df.index) :
                    Matches(r, j) => \E i \in 1..(j - 1) : Matches(r, i)
        /\ (/\ Len(cands) > 0 /\ cands[1] = c_ebit
            /\ \E r \in 1..Len(df.index) : df.index[r] = L_EBITDA
            /\ \E r \in 1..Len(df.index) : df.index[r] = L_EBIT
            /\ Position(L_EBITDA) < Position(L_EBIT))
              => agg.row = Label(L_EBITDA)

\* "short long term debt" after "long term debt": the only debt row is the
\* short-term one and it is found by "long term debt"
C28_Witness ==
    /\ agg.op = "_col_like"
    /\ cands = <<c_total_debt, c_long_term_debt, c_short_long_term_debt>>
    /\ df.index = <<L_CashAndCashEquivalents, L_ShortLongTermDebt>>
    /\ agg.row = Label(L_ShortLongTermDebt)
    /\ _col_like(df, <<c_long_term_debt>>) = agg.row

\* "ebit" resolved to the EBITDA row, which precedes the EBIT row
C28_WitnessEbit ==
    /\ agg.op = "_col_like"
    /\ cands = <<c_ebit, c_long_term_debt>>
    /\ df.index = <<L_NetIncome, L_EBITDA, L_EBIT>>
    /\ agg.row = Label(L_EBITDA)

-----------------------------------------------------------------------------
(* Properties of the stock page's profile *)

\* what the provider knows under a key
Known(key) == IF profile.resp.raises THEN None ELSE get(profile.resp.info, key)

\* C29: every profile field compute_core_ratios reads is among the fields
\* get_profile returns, so that what the provider knows under it is what the
\* ratio calculator reads, and a provider value comes out as the ratio
C29_ProfileReachesRatios ==
    profile.done =>
        /\ InfoKeys \subseteq DOMAIN profile.ret
        /\ \A key \in InfoKeys : info[key] = Known(key)
        /\ Computed =>
              \A pair \in {<<"P/E (TTM)", "trailingPE">>, <<"P/B", "priceToBook">>,
                           <<"P/S (TTM)", "priceToSalesTrailing12Months">>,
                           <<"EV/EBITDA (TTM)", "enterpriseToEbitda">>, <<"Beta", "beta">>} :
                  Known(pair[2]) # None => out[pair[1]] = Known(pair[2])

\* what holds of C29: the statement for the fields other than the price to sales
C29_OtherFields ==
    profile.done =>
        /\ (InfoKeys \ {"priceToSalesTrailing12Months"}) \subseteq DOMAIN profile.ret
        /\ \A key \in InfoKeys \ {"priceToSalesTrailing12Months"} : info[key] = Known(key)
        /\ Computed =>
              \A pair \in {<<"P/E (TTM)", "trailingPE">>, <<"P/B", "priceToBook">>,
                           <<"EV/EBITDA (TTM)", "enterpriseToEbitda">>, <<"Beta", "beta">>} :
                  Known(pair[2]) # None => out[pair[1]] = Known(pair[2])

====
